---------------------------- MODULE Spec2Model ----------------------------
(***************************************************************************)
(* The product catalog of routes/products.js: the product list, its four   *)
(* indexes (primary, word, trigram, category), the response cache and the  *)
(* request handlers that read and mutate them.                             *)
(*                                                                         *)
(* Text is a sequence of one-character strings, so that normalizeText,     *)
(* getWords, getTrigrams and String.includes are computed character by     *)
(* character as the JavaScript does.  A JavaScript Set or Map posting      *)
(* list is a duplicate-free sequence in insertion order.                   *)
(***************************************************************************)
EXTENDS Integers, Sequences, FiniteSets, TLC

VARIABLES
    products,       \* let products = []            (products.js:10)
    productById,    \* let productById = new Map()  (products.js:11)
    trigramIndex,   \* let trigramIndex = new Map() (products.js:12)
    wordIndex,      \* let wordIndex = new Map()    (products.js:13)
    categoryIndex,  \* let categoryIndex = new Map()(products.js:14)
    generatedAt,    \* let generatedAt = 0          (products.js:15)
    responseCache,  \* const responseCache = new Map() (products.js:24)
    now,            \* Date.now(), in milliseconds; only Tick advances it
    JWT_SECRET,     \* process.env.JWT_SECRET || '' (middleware/auth)
    carts,          \* const carts = new Map()        (cart.js:9)
    auditLog,       \* const auditLog = []            (cart.js:213)
    rateLimitMap,   \* const rateLimitMap = new Map() (server:21)
    res             \* the request last handled and the response sent for it

vars == <<products, productById, trigramIndex, wordIndex, categoryIndex,
          generatedAt, responseCache, now, JWT_SECRET, carts, auditLog,
          rateLimitMap, res>>

\* The cart router, the secret router and the rate limiter as they start:
\* no cart, no audit entry and no client counted.
RoutersStarted ==
    /\ carts = [userId \in {} |-> <<>>]
    /\ auditLog = <<>>
    /\ rateLimitMap = [key \in {} |-> <<>>]

\* The state of the cart router, the secret router and the rate limiter.
otherRouters == <<carts, auditLog, rateLimitMap>>

-----------------------------------------------------------------------------
(* Bounds of the model *)

\* The source generates 1000 products (PRODUCT_COUNT, products.js:17); the
\* model generates this many.
ProductCount == 1
\* No create when the list already holds this many products.
MaxProducts == ProductCount + 1
\* No create that would assign an id above this one.
MaxId == MaxProducts
-----------------------------------------------------------------------------
(* Program constants *)

CACHE_TTL_MS == 30000
DEFAULT_LIMIT == 25
MAX_LIMIT == 100
ALLOWED_SORT_FIELDS ==
    {"name", "price", "category", "brand", "stock", "rating", "createdAt"}

-----------------------------------------------------------------------------
(* Characters and strings *)

Upper == <<"A","B","C","D","E","F","G","H","I","J","K","L","M",
           "N","O","P","Q","R","S","T","U","V","W","X","Y","Z">>
Lower == <<"a","b","c","d","e","f","g","h","i","j","k","l","m",
           "n","o","p","q","r","s","t","u","v","w","x","y","z">>
Digits == <<"0","1","2","3","4","5","6","7","8","9">>

\* The characters of the model in the order of their UTF-16 code units.
CodeOrder == <<"\t", " ", "#", "&", "-">> \o Digits \o <<";", "<">> \o Upper \o Lower

Range(s) == {s[i] : i \in DOMAIN s}

CharCode(c) == CHOOSE i \in DOMAIN CodeOrder : CodeOrder[i] = c

IsSpace(c) == c \in {" ", "\t"}

\* The characters of [A-Z] and of [a-zA-Z0-9]
UpperChars == Range(Upper)
AlnumChars == Range(Upper) \cup Range(Lower) \cup Range(Digits)

IsAlnum(c) == c \in AlnumChars

ToLowerChar(c) ==
    IF c \in UpperChars
    THEN Lower[CHOOSE i \in DOMAIN Upper : Upper[i] = c]
    ELSE c

\* A toLowerCase that leaves the case of every letter.
toLowerCaseKeepingCase(s) == s

toLowerCase(s) == [i \in DOMAIN s |-> ToLowerChar(s[i])]

\* value.replace(/\s+/g, ' '): every maximal run of white space becomes one space.
RECURSIVE CollapseFrom(_, _)
CollapseFrom(s, i) ==
    IF i > Len(s) THEN <<>>
    ELSE IF IsSpace(s[i])
         THEN (IF i > 1 /\ IsSpace(s[i-1]) THEN <<>> ELSE <<" ">>)
              \o CollapseFrom(s, i + 1)
         ELSE <<s[i]>> \o CollapseFrom(s, i + 1)

\* String.prototype.trim
trim(s) ==
    LET keep == {i \in DOMAIN s : ~IsSpace(s[i])}
    IN  IF keep = {} THEN <<>>
        ELSE LET a == CHOOSE i \in keep : \A j \in keep : i <= j
                 b == CHOOSE i \in keep : \A j \in keep : i >= j
             IN  SubSeq(s, a, b)

normalizeText(value) == trim(CollapseFrom(toLowerCase(value), 1))

\* text.split(/[^a-z0-9]+/i): the pieces between the runs of separators.
RECURSIVE SplitFrom(_, _, _)
SplitFrom(s, i, cur) ==
    IF i > Len(s) THEN <<cur>>
    ELSE IF IsAlnum(s[i]) THEN SplitFrom(s, i + 1, Append(cur, s[i]))
    ELSE IF i > 1 /\ ~IsAlnum(s[i-1]) THEN SplitFrom(s, i + 1, cur)
    ELSE <<cur>> \o SplitFrom(s, i + 1, <<>>)

WordLongEnough(word) == Len(word) > 1

getWords(text) == SelectSeq(SplitFrom(text, 1, <<>>), WordLongEnough)

getTrigrams(text) ==
    IF Len(text) < 3 THEN <<>>
    ELSE [i \in 1..(Len(text) - 2) |-> SubSeq(text, i, i + 2)]

\* String.prototype.includes
Includes(text, q) ==
    \E i \in 0..(Len(text) - Len(q)) : SubSeq(text, i + 1, i + Len(q)) = q

\* validator.escape, on the characters of the model
EscapeChar(c) ==
    CASE c = "&" -> <<"&", "a", "m", "p", ";">>
      [] c = "<" -> <<"&", "l", "t", ";">>
      [] OTHER   -> <<c>>

RECURSIVE EscapeFrom(_, _)
EscapeFrom(s, i) ==
    IF i > Len(s) THEN <<>> ELSE EscapeChar(s[i]) \o EscapeFrom(s, i + 1)

sanitizeText(value) == EscapeFrom(trim(value), 1)

\* i.toString() and parseInt(id, 10) on the ids of the model
IdString(i) ==
    IF i < 10 THEN Digits[i + 1]
    ELSE Digits[(i \div 10) + 1] \o Digits[(i % 10) + 1]

\* The decimal numerals of two digits.
TwoDigits == {IdString(i) : i \in 10..99}

parseInt(id) ==
    IF id \in Range(Digits) THEN (CHOOSE i \in DOMAIN Digits : Digits[i] = id) - 1
    ELSE CHOOSE i \in 10..99 : IdString(i) = id

\* The characters of i.toString()
RECURSIVE DecimalChars(_)
DecimalChars(i) ==
    IF i < 10 THEN <<Digits[i + 1]>>
    ELSE DecimalChars(i \div 10) \o <<Digits[(i % 10) + 1]>>


-----------------------------------------------------------------------------
(* JavaScript values *)

\* null, as in nextPage: null
Null == [isNull |-> TRUE]

Has(obj, field) == field \in DOMAIN obj

\* A rating is the string (Math.random() * 5).toFixed(1) of a generated product
\* or the number 0 of a created one; tenths is its numeric value times ten.
RatingString(tenths) == [type |-> "string", tenths |-> tenths]
RatingNumber(n) == [type |-> "number", tenths |-> 10 * n]

-----------------------------------------------------------------------------
(* Indexes *)

EmptyMap == [k \in {} |-> <<>>]

\* An addToIndex that sets the posting list of the key instead of adding to it.
addToIndexReplacing(indexMap, key, productId) ==
    (key :> <<productId>>) @@ indexMap

addToIndex(indexMap, key, productId) ==
    IF key \notin DOMAIN indexMap
    THEN indexMap @@ (key :> <<productId>>)
    ELSE IF productId \in Range(indexMap[key])
         THEN indexMap
         ELSE [indexMap EXCEPT ![key] = Append(@, productId)]

\* keys.forEach(key => addToIndex(indexMap, key, productId)): addToIndex
\* touches the posting list of its key alone and adding an id twice changes
\* nothing, so each key's posting list is the one a single addToIndex leaves.
AddAllToIndex(indexMap, keys, productId) ==
    [key \in Range(keys) |-> addToIndex(indexMap, key, productId)[key]] @@ indexMap

\* A searchable text that leaves the description out of a product that has
\* been indexed before.
SearchableTextOnce(product) ==
    IF Has(product, "searchableText")
    THEN normalizeText(product.name)
    ELSE normalizeText(product.name \o <<" ">> \o product.description)

SearchableTextOf(product) ==
    normalizeText(product.name \o <<" ">> \o product.description)

\* The body of buildIndexes' forEach, for one product.
IndexProduct(acc, product) ==
    LET searchableText == SearchableTextOf(product)
        indexed == ("searchableText" :> searchableText) @@ product
    IN  [products      |-> Append(acc.products, indexed),
         productById   |-> ((indexed.id :> indexed) @@ acc.productById),
         categoryIndex |-> addToIndex(acc.categoryIndex, indexed.category, indexed.id),
         wordIndex     |-> AddAllToIndex(acc.wordIndex, getWords(searchableText), indexed.id),
         trigramIndex  |-> AddAllToIndex(acc.trigramIndex, getTrigrams(searchableText), indexed.id)]

\* productList.forEach, from product i to product j in this order: the
\* products up to the middle one first, then the others.
RECURSIVE IndexFrom(_, _, _, _)
IndexFrom(acc, productList, i, j) ==
    IF i > j THEN acc
    ELSE IF i = j THEN IndexProduct(acc, productList[i])
    ELSE CHOOSE last \in {IndexFrom(half, productList, ((i + j) \div 2) + 1, j) :
                half \in {IndexFrom(acc, productList, i, (i + j) \div 2)}} : TRUE

\* buildIndexes(productList): the four maps are rebuilt from nothing, every
\* product gets its searchableText, and the response cache is cleared.
buildIndexes(productList) ==
    LET built == IndexFrom([products |-> <<>>, productById |-> EmptyMap,
                            categoryIndex |-> EmptyMap, wordIndex |-> EmptyMap,
                            trigramIndex |-> EmptyMap], productList, 1, Len(productList))
    IN  [products      |-> built.products,
         productById   |-> built.productById,
         trigramIndex  |-> built.trigramIndex,
         wordIndex     |-> built.wordIndex,
         categoryIndex |-> built.categoryIndex,
         responseCache |-> EmptyMap]

-----------------------------------------------------------------------------
(* The generated catalog *)

Electronics == <<"E", "l", "e", "c", "t", "r", "o", "n", "i", "c", "s">>
Books == <<"B", "o", "o", "k", "s">>
BrandA == <<"B", "r", "a", "n", "d", "A">>
BrandB == <<"B", "r", "a", "n", "d", "B">>

\* The outcomes of the Math.random() calls for one generated product.
GenDraws ==
    { [price |-> 10, category |-> Electronics, brand |-> BrandA, stock |-> 5,
       rating |-> RatingString(45), costPrice |-> 5, adminOnly |-> FALSE],
      [price |-> 20, category |-> Books, brand |-> BrandB, stock |-> 0,
       rating |-> RatingString(0), costPrice |-> 7, adminOnly |-> TRUE] }

GenDrawSeqs == [1..ProductCount -> GenDraws]

GeneratedProduct(i, draw, time) ==
    [id            |-> IdString(i),
     name          |-> <<"P", "r", "o", "d", "u", "c", "t", " ">> \o DecimalChars(i),
     description   |-> <<"T", "h", "i", "s", " ", "i", "s", " ", "p", "r", "o", "d",
                         "u", "c", "t", " ", "n", "u", "m", "b", "e", "r", " ">>
                       \o DecimalChars(i)
                       \o <<" ", "w", "i", "t", "h", " ", "a", "m", "a", "z", "i", "n",
                            "g", " ", "f", "e", "a", "t", "u", "r", "e", "s">>,
     price         |-> draw.price,
     category      |-> draw.category,
     brand         |-> draw.brand,
     stock         |-> draw.stock,
     rating        |-> draw.rating,
     tags          |-> << <<"t", "a", "g">> \o DecimalChars(i),
                          <<"f", "e", "a", "t", "u", "r", "e">> \o DecimalChars(i % 10) >>,
     createdAt     |-> time,
     costPrice     |-> draw.costPrice,
     supplier      |-> <<"S", "u", "p", "p", "l", "i", "e", "r", " ">>
                       \o DecimalChars(i % 20),
     internalNotes |-> <<"I", "n", "t", "e", "r", "n", "a", "l", " ", "n", "o", "t",
                         "e", "s", " ", "f", "o", "r", " ", "p", "r", "o", "d", "u",
                         "c", "t", " ">> \o DecimalChars(i),
     adminOnly     |-> draw.adminOnly]

\* generateProducts(): the catalog state it leaves.
generateProducts(draws, time) ==
    buildIndexes([i \in 1..ProductCount |-> GeneratedProduct(i, draws[i], time)])
    @@ [generatedAt |-> time]

\* The catalog state as a record.
Catalog ==
    [products      |-> products,
     productById   |-> productById,
     trigramIndex  |-> trigramIndex,
     wordIndex     |-> wordIndex,
     categoryIndex |-> categoryIndex,
     responseCache |-> responseCache,
     generatedAt   |-> generatedAt]

\* ensureProductsFresh(): an empty product list is generated anew.
ensureProductsFresh(draws) ==
    IF Len(products) = 0 THEN generateProducts(draws, now) ELSE Catalog

\* The draws a handler may see: they matter only when the list is empty.
DrawsNeeded ==
    IF Len(products) = 0 THEN GenDrawSeqs
    ELSE {CHOOSE d \in GenDrawSeqs : TRUE}

Install(cat) ==
    /\ products' = cat.products
    /\ productById' = cat.productById
    /\ trigramIndex' = cat.trigramIndex
    /\ wordIndex' = cat.wordIndex
    /\ categoryIndex' = cat.categoryIndex
    /\ responseCache' = cat.responseCache
    /\ generatedAt' = cat.generatedAt

-----------------------------------------------------------------------------
(* GET /api/products: parameters *)

\* A reading that takes the leading digits of a decimal fraction, as
\* parseInt does.
ToNumberTruncating(raw) ==
    CASE raw \in Range(Digits) -> [isInteger |-> TRUE, value |-> parseInt(raw)]
      [] raw \in TwoDigits     -> [isInteger |-> TRUE, value |-> parseInt(raw)]
      [] raw = "-1"            -> [isInteger |-> TRUE, value |-> -1]
      [] raw = "200"           -> [isInteger |-> TRUE, value |-> 200]
      [] raw = "1.5"           -> [isInteger |-> TRUE, value |-> 1]
      [] raw = ""              -> [isInteger |-> TRUE, value |-> 0]
      [] OTHER                 -> [isInteger |-> FALSE]

\* Number(raw) of a raw query-string value, as far as Number.isInteger reads it.
ToNumber(raw) ==
    CASE raw \in Range(Digits) -> [isInteger |-> TRUE, value |-> parseInt(raw)]
      [] raw \in TwoDigits     -> [isInteger |-> TRUE, value |-> parseInt(raw)]
      [] raw = "-1"            -> [isInteger |-> TRUE, value |-> -1]
      [] raw = "200"           -> [isInteger |-> TRUE, value |-> 200]
      [] raw = ""              -> [isInteger |-> TRUE, value |-> 0]
      [] OTHER                 -> [isInteger |-> FALSE]

Min(a, b) == IF a < b THEN a ELSE b
Max(a, b) == IF a > b THEN a ELSE b

\* Lines 206-213: the effective parameters of a request with query string q.
ParseQuery(q) ==
    LET rawPage  == IF Has(q, "page") /\ q.page # "" THEN ToNumber(q.page)
                    ELSE [isInteger |-> TRUE, value |-> 1]
        rawLimit == IF Has(q, "limit") /\ q.limit # "" THEN ToNumber(q.limit)
                    ELSE [isInteger |-> TRUE, value |-> DEFAULT_LIMIT]
    IN  [page      |-> IF rawPage.isInteger /\ rawPage.value > 0 THEN rawPage.value ELSE 1,
         limit     |-> IF rawLimit.isInteger
                       THEN Min(Max(rawLimit.value, 1), MAX_LIMIT)
                       ELSE DEFAULT_LIMIT,
         search    |-> IF Has(q, "search") THEN q.search ELSE <<>>,
         category  |-> IF Has(q, "category") THEN q.category ELSE <<>>,
         sortBy    |-> IF Has(q, "sortBy") /\ q.sortBy \in ALLOWED_SORT_FIELDS
                       THEN q.sortBy ELSE "name",
         sortOrder |-> IF Has(q, "sortOrder") /\ q.sortOrder = "desc"
                       THEN "desc" ELSE "asc"]

\* JSON.stringify of a string, on the characters of the model: the quote,
\* the backslash and the tab are escaped.
JsonChar(c) ==
    CASE c = "\"" -> <<"\\", "\"">>
      [] c = "\\" -> <<"\\", "\\">>
      [] c = "\t" -> <<"\\", "t">>
      [] OTHER    -> <<c>>

RECURSIVE JsonEscapeFrom(_, _)
JsonEscapeFrom(s, i) ==
    IF i > Len(s) THEN <<>> ELSE JsonChar(s[i]) \o JsonEscapeFrom(s, i + 1)

JsonString(s) == <<"\"">> \o JsonEscapeFrom(s, 1) \o <<"\"">>

\* The characters of a string of the program that the model keeps whole.
Chars(word) ==
    CASE word = "name"      -> <<"n", "a", "m", "e">>
      [] word = "price"     -> <<"p", "r", "i", "c", "e">>
      [] word = "category"  -> <<"c", "a", "t", "e", "g", "o", "r", "y">>
      [] word = "brand"     -> <<"b", "r", "a", "n", "d">>
      [] word = "stock"     -> <<"s", "t", "o", "c", "k">>
      [] word = "rating"    -> <<"r", "a", "t", "i", "n", "g">>
      [] word = "createdAt" -> <<"c", "r", "e", "a", "t", "e", "d", "A", "t">>
      [] word = "asc"       -> <<"a", "s", "c">>
      [] word = "desc"      -> <<"d", "e", "s", "c">>
      [] word = "page"      -> <<"p", "a", "g", "e">>
      [] word = "limit"     -> <<"l", "i", "m", "i", "t">>
      [] word = "search"    -> <<"s", "e", "a", "r", "c", "h">>
      [] word = "sortBy"    -> <<"s", "o", "r", "t", "B", "y">>
      [] word = "sortOrder" -> <<"s", "o", "r", "t", "O", "r", "d", "e", "r">>

\* A cache key that leaves the category out.
getCacheKeyWithoutCategory(params) ==
    <<"p", "=">> \o DecimalChars(params.page) \o <<"l", "=">> \o DecimalChars(params.limit)
    \o JsonString(params.search) \o JsonString(Chars(params.sortBy))
    \o JsonString(Chars(params.sortOrder))

\* JSON.stringify({ ...params }): the text
\* {"page":1,"limit":25,"search":"","category":"","sortBy":"name","sortOrder":"asc"}
getCacheKey(params) ==
    <<"{", "\"", "p", "a", "g", "e", "\"", ":">> \o DecimalChars(params.page)
    \o <<",", "\"", "l", "i", "m", "i", "t", "\"", ":">> \o DecimalChars(params.limit)
    \o <<",", "\"", "s", "e", "a", "r", "c", "h", "\"", ":">> \o JsonString(params.search)
    \o <<",", "\"", "c", "a", "t", "e", "g", "o", "r", "y", "\"", ":">> \o JsonString(params.category)
    \o <<",", "\"", "s", "o", "r", "t", "B", "y", "\"", ":">> \o JsonString(Chars(params.sortBy))
    \o <<",", "\"", "s", "o", "r", "t", "O", "r", "d", "e", "r", "\"", ":">> \o JsonString(Chars(params.sortOrder))
    \o <<"}">>

\* getCachedResponse: the entry, or Null when absent or expired.
getCachedResponseIgnoringExpiry(cache, cacheKey, time) ==
    IF cacheKey \notin DOMAIN cache THEN Null ELSE cache[cacheKey]

getCachedResponse(cache, cacheKey, time) ==
    IF cacheKey \notin DOMAIN cache THEN Null
    ELSE IF cache[cacheKey].expiresAt < time THEN Null
    ELSE cache[cacheKey]

\* The cache after getCachedResponse: an expired entry is deleted.
CacheAfterLookup(cache, cacheKey, time) ==
    IF cacheKey \in DOMAIN cache /\ cache[cacheKey].expiresAt < time
    THEN [k \in DOMAIN cache \ {cacheKey} |-> cache[k]]
    ELSE cache

setCachedResponse(cache, cacheKey, payload, headers, time) ==
    (cacheKey :> [payload |-> payload, headers |-> headers,
                  expiresAt |-> time + CACHE_TTL_MS]) @@ cache

-----------------------------------------------------------------------------
(* GET /api/products: search, filter, sort, paginate *)

\* indexMap.get(key) || new Set()
Postings(indexMap, key) ==
    IF key \in DOMAIN indexMap THEN indexMap[key] ELSE <<>>

\* A JavaScript Set held in a variable that may also be null.
SetOf(ids) == [ids |-> ids]

\* keys.forEach(...) of lines 231-238 and 240-247: the first posting list,
\* narrowed by each further one.
RECURSIVE IntersectFrom(_, _, _, _)
IntersectFrom(indexMap, keys, i, candidateIds) ==
    IF i > Len(keys) THEN candidateIds
    ELSE LET matches == Postings(indexMap, keys[i])
             HasMatch(id) == id \in Range(matches)
         IN  IntersectFrom(indexMap, keys, i + 1,
                 IF candidateIds = Null THEN SetOf(matches)
                 ELSE SetOf(SelectSeq(candidateIds.ids, HasMatch)))

\* Candidate ids that are null again when no product is left.
CandidateIdsNullWhenEmpty(cat, normalizedQuery) ==
    LET queryTrigrams == getTrigrams(normalizedQuery)
        queryWords == getWords(normalizedQuery)
        found == IF Len(queryTrigrams) > 0
                 THEN IntersectFrom(cat.trigramIndex, queryTrigrams, 1, Null)
                 ELSE IF Len(queryWords) > 0
                      THEN IntersectFrom(cat.wordIndex, queryWords, 1, Null)
                      ELSE Null
    IN  IF found # Null /\ found.ids = <<>> THEN Null ELSE found

\* Lines 227-248: the candidate ids of a non-empty normalized query, Null when
\* the query has neither trigrams nor words.
CandidateIds(cat, normalizedQuery) ==
    LET queryTrigrams == getTrigrams(normalizedQuery)
        queryWords == getWords(normalizedQuery)
    IN  IF Len(queryTrigrams) > 0
        THEN IntersectFrom(cat.trigramIndex, queryTrigrams, 1, Null)
        ELSE IF Len(queryWords) > 0
             THEN IntersectFrom(cat.wordIndex, queryWords, 1, Null)
             ELSE Null

\* ids.map(id => productById.get(id)).filter(Boolean)
Resolve(cat, ids) ==
    LET Known(id) == id \in DOMAIN cat.productById
        known == SelectSeq(ids, Known)
    IN  [i \in DOMAIN known |-> cat.productById[known[i]]]

\* Lines 222-269: the products matched by search and category, before the sort.
FilterProducts(cat, params) ==
    LET normalizedQuery == IF params.search # <<>> THEN normalizeText(params.search) ELSE <<>>
        candidateIds == IF normalizedQuery # <<>> THEN CandidateIds(cat, normalizedQuery) ELSE Null
        Verified(p) == Includes(p.searchableText, normalizedQuery)
        afterSearch ==
            IF normalizedQuery = <<>> THEN cat.products
            ELSE IF candidateIds # Null /\ Len(candidateIds.ids) > 0
                 THEN SelectSeq(Resolve(cat, candidateIds.ids), Verified)
                 ELSE <<>>
        categoryMatches == Postings(cat.categoryIndex, params.category)
        InCategory(p) == p.id \in Range(categoryMatches)
    IN  IF params.category # <<>>
        THEN IF candidateIds = Null
             THEN Resolve(cat, categoryMatches)
             ELSE SelectSeq(afterSearch, InCategory)
        ELSE afterSearch

\* value > other on two strings: the first differing code unit decides.
RECURSIVE StringLess(_, _, _)
StringLess(a, b, i) ==
    IF i > Len(a) THEN i <= Len(b)
    ELSE IF i > Len(b) THEN FALSE
    ELSE IF a[i] = b[i] THEN StringLess(a, b, i + 1)
    ELSE CharCode(a[i]) < CharCode(b[i])

\* lodash compareAscending on the values of one sort field: -1, 0 or 1.
compareAscending(field, value, other) ==
    IF field \in {"name", "category", "brand"}
    THEN (IF StringLess(other, value, 1) THEN 1
          ELSE IF StringLess(value, other, 1) THEN -1 ELSE 0)
    ELSE LET v == IF field = "rating" THEN value.tenths ELSE value
             o == IF field = "rating" THEN other.tenths ELSE other
         IN  IF v > o THEN 1 ELSE IF v < o THEN -1 ELSE 0

\* lodash compareMultiple for one criterion, before the index tie-break.
compareDirected(field, order, a, b) ==
    LET result == compareAscending(field, a[field], b[field])
    IN  IF order = "desc" THEN 0 - result ELSE result

\* An insertion in front of the elements that sort equal.
InsertOrderedBeforeEqual(sorted, x, field, order) ==
    LET pos == Cardinality({i \in DOMAIN sorted :
                                compareDirected(field, order, sorted[i], x) < 0})
    IN  SubSeq(sorted, 1, pos) \o <<x>> \o SubSeq(sorted, pos + 1, Len(sorted))

\* One element placed behind every element that does not sort after it.
InsertOrdered(sorted, x, field, order) ==
    LET pos == Cardinality({i \in DOMAIN sorted :
                                compareDirected(field, order, sorted[i], x) <= 0})
    IN  SubSeq(sorted, 1, pos) \o <<x>> \o SubSeq(sorted, pos + 1, Len(sorted))

RECURSIVE OrderFrom(_, _, _, _, _)
OrderFrom(sorted, list, i, field, order) ==
    IF i > Len(list) THEN sorted
    ELSE OrderFrom(InsertOrdered(sorted, list[i], field, order), list, i + 1, field, order)

\* _.orderBy(list, [sortBy], [sortOrder]): lodash sorts by the criterion and
\* breaks ties by the element's index in list.
orderBy(list, field, order) == OrderFrom(<<>>, list, 1, field, order)

\* A projection that sends the stored product as it is.
toPublicProductWhole(product) == product

toPublicProduct(product) ==
    [id          |-> product.id,
     name        |-> product.name,
     description |-> product.description,
     price       |-> product.price,
     category    |-> product.category,
     brand       |-> product.brand,
     stock       |-> product.stock,
     rating      |-> product.rating,
     tags        |-> product.tags,
     createdAt   |-> product.createdAt]

\* encodeURIComponent, on the characters of the model
EncodeChar(c) ==
    CASE c = " "  -> <<"%", "2", "0">>
      [] c = "\t" -> <<"%", "0", "9">>
      [] c = "\"" -> <<"%", "2", "2">>
      [] c = "#"  -> <<"%", "2", "3">>
      [] c = "%"  -> <<"%", "2", "5">>
      [] c = "&"  -> <<"%", "2", "6">>
      [] c = ","  -> <<"%", "2", "C">>
      [] c = "/"  -> <<"%", "2", "F">>
      [] c = ":"  -> <<"%", "3", "A">>
      [] c = ";"  -> <<"%", "3", "B">>
      [] c = "<"  -> <<"%", "3", "C">>
      [] c = "="  -> <<"%", "3", "D">>
      [] c = "?"  -> <<"%", "3", "F">>
      [] c = "\\" -> <<"%", "5", "C">>
      [] OTHER    -> <<c>>

\* An encoding that leaves every character as it is.
encodeURIComponentRaw(s) == s

RECURSIVE encodeURIComponent(_)
encodeURIComponent(s) ==
    IF s = <<>> THEN <<>> ELSE EncodeChar(Head(s)) \o encodeURIComponent(Tail(s))

\* process.env.BACKEND_URL
BACKEND_URL == <<"h", "t", "t", "p", ":", "/", "/", "b">>

\* The link BACKEND_URL/api/products?page=..&limit=..&search=..&category=..
\* &sortBy=..&sortOrder=.., as the text of the URL.
PageLink(page, params) ==
    [url |-> BACKEND_URL
             \o <<"/", "a", "p", "i", "/", "p", "r", "o", "d", "u", "c", "t", "s", "?", "p", "a", "g", "e", "=">> \o DecimalChars(page)
             \o <<"&", "l", "i", "m", "i", "t", "=">> \o DecimalChars(params.limit)
             \o <<"&", "s", "e", "a", "r", "c", "h", "=">> \o encodeURIComponent(params.search)
             \o <<"&", "c", "a", "t", "e", "g", "o", "r", "y", "=">> \o encodeURIComponent(params.category)
             \o <<"&", "s", "o", "r", "t", "B", "y", "=">> \o Chars(params.sortBy)
             \o <<"&", "s", "o", "r", "t", "O", "r", "d", "e", "r", "=">> \o Chars(params.sortOrder)]

\* A division that rounds down.
CeilDivRoundingDown(count, limit) == count \div limit

\* Math.ceil(count / limit)
CeilDiv(count, limit) ==
    IF count % limit = 0 THEN count \div limit ELSE (count \div limit) + 1

\* A slice that takes the element at endIndex too.
SliceInclusive(list, startIndex, endIndex) ==
    IF startIndex >= Len(list) THEN <<>>
    ELSE SubSeq(list, startIndex + 1, Min(endIndex + 1, Len(list)))

\* A slice that answers a start behind the end with the last element.
SliceClamped(list, startIndex, endIndex) ==
    IF list = <<>> THEN <<>>
    ELSE SubSeq(list, Min(startIndex + 1, Len(list)), Min(endIndex, Len(list)))

\* filteredProducts.slice(startIndex, startIndex + limit)
Slice(list, startIndex, endIndex) ==
    IF startIndex >= Len(list) THEN <<>>
    ELSE SubSeq(list, startIndex + 1, Min(endIndex, Len(list)))

\* Lines 271-288: the sorted list and the payload built from it.
SortProducts(filteredProducts, params) ==
    IF Len(filteredProducts) > 1
    THEN orderBy(filteredProducts, params.sortBy, params.sortOrder)
    ELSE filteredProducts

BuildPayload(sortedProducts, params) ==
    LET startIndex == (params.page - 1) * params.limit
        paginatedProducts == Slice(sortedProducts, startIndex, startIndex + params.limit)
        totalPages == CeilDiv(Len(sortedProducts), params.limit)
    IN  [products   |-> [i \in DOMAIN paginatedProducts |->
                            toPublicProduct(paginatedProducts[i])],
         pagination |->
            [currentPage  |-> params.page,
             totalPages   |-> totalPages,
             totalItems   |-> Len(sortedProducts),
             itemsPerPage |-> params.limit,
             nextPage     |-> IF params.page >= totalPages THEN Null
                              ELSE PageLink(params.page + 1, params),
             prevPage     |-> IF params.page > 1 THEN PageLink(params.page - 1, params)
                              ELSE Null]]

\* The handler of GET /api/products on catalog cat at time `time`: the
\* catalog it leaves and the response it sends.
listProducts(cat, q, time) ==
    LET params == ParseQuery(q)
        cacheKey == getCacheKey(params)
        cached == getCachedResponse(cat.responseCache, cacheKey, time)
        looked == CacheAfterLookup(cat.responseCache, cacheKey, time)
        filteredProducts == SortProducts(FilterProducts(cat, params), params)
        responsePayload == BuildPayload(filteredProducts, params)
        headers == [XTotalCount |-> Len(filteredProducts)]
    IN  IF cached # Null
        THEN [cat |-> cat,
              res |-> [op |-> "list", query |-> q, status |-> 200,
                       headers |-> cached.headers, body |-> cached.payload,
                       fromCache |-> TRUE]]
        ELSE [cat |-> [cat EXCEPT !.responseCache =
                          setCachedResponse(looked, cacheKey, responsePayload, headers, time)],
              res |-> [op |-> "list", query |-> q, status |-> 200,
                       headers |-> headers, body |-> responsePayload,
                       fromCache |-> FALSE]]

\* validator.isInt(productId, { min: 1 }) on the ids requests carry
IsIntMin1(productId) ==
    \/ productId \in Range(Digits) /\ parseInt(productId) >= 1
    \/ productId \in TwoDigits

\* The handler of GET /api/products/:productId
getProduct(cat, productId) ==
    IF ~IsIntMin1(productId)
    THEN [op |-> "get", productId |-> productId, status |-> 400,
          body |-> [error |-> "Invalid product ID"]]
    ELSE IF productId \notin DOMAIN cat.productById
    THEN [op |-> "get", productId |-> productId, status |-> 404,
          body |-> [error |-> "Product not found"]]
    ELSE [op |-> "get", productId |-> productId, status |-> 200,
          body |-> toPublicProduct(cat.productById[productId])]

-----------------------------------------------------------------------------
(* middleware/auth: authenticate and requireAdmin *)

NoAuthorization == [present |-> FALSE]

\* An Authorization header "Bearer <jwt>"; the token is the key it was signed
\* with and the claims it carries.
Bearer(key, claims) ==
    [present |-> TRUE, scheme |-> "Bearer", token |-> [key |-> key, claims |-> claims]]

\* A requireAdmin that is authenticate alone: any role passes.
requireAdminAnyRole(authorization, secret) ==
    IF ~authorization.present \/ authorization.scheme # "Bearer"
    THEN [status |-> 401, body |-> [error |-> "Authentication required"]]
    ELSE IF secret = ""
    THEN [status |-> 500, body |-> [error |-> "Server authentication not configured"]]
    ELSE IF authorization.token.key # secret
    THEN [status |-> 401, body |-> [error |-> "Invalid authentication token"]]
    ELSE [status |-> 0]

\* authenticate and requireAdmin: status 0 when the request is passed on to
\* the route, else the response it is answered with.
requireAdmin(authorization, secret) ==
    IF ~authorization.present \/ authorization.scheme # "Bearer"
    THEN [status |-> 401, body |-> [error |-> "Authentication required"]]
    ELSE IF secret = ""
    THEN [status |-> 500, body |-> [error |-> "Server authentication not configured"]]
    ELSE IF authorization.token.key # secret
    THEN [status |-> 401, body |-> [error |-> "Invalid authentication token"]]
    ELSE LET payload == authorization.token.claims
             id == IF Has(payload, "sub") /\ payload.sub # "" THEN payload.sub
                   ELSE IF Has(payload, "id") THEN payload.id ELSE ""
             role == IF Has(payload, "role") /\ payload.role # "" THEN payload.role
                     ELSE "user"
         IN  IF id = ""
             THEN [status |-> 401, body |-> [error |-> "Invalid authentication token"]]
             ELSE IF role # "admin"
             THEN [status |-> 403, body |-> [error |-> "Admin access required"]]
             ELSE [status |-> 0]

-----------------------------------------------------------------------------
(* Mutations *)

Truthy(obj, field) == Has(obj, field) /\ obj[field] # <<>>

LengthBetween(str, min, max) == Len(str) >= min /\ Len(str) <= max

\* validateProductInput(productData, { partial }): the error messages.
\* name, description, category and brand are strings when present, price and
\* stock are numbers, tags is [isArray, items].
validateProductInput(productData, partial) ==
    (IF (~partial \/ Has(productData, "name"))
        /\ (~Truthy(productData, "name") \/ ~LengthBetween(productData.name, 2, 120))
     THEN <<"Name must be between 2 and 120 characters.">> ELSE <<>>)
    \o
    (IF (~partial \/ Has(productData, "description"))
        /\ Truthy(productData, "description")
        /\ ~LengthBetween(productData.description, 0, 500)
     THEN <<"Description must be 500 characters or less.">> ELSE <<>>)
    \o
    (IF (~partial \/ Has(productData, "price"))
        /\ (~Has(productData, "price") \/ productData.price <= 0)
     THEN <<"Price must be a positive number.">> ELSE <<>>)
    \o
    (IF (~partial \/ Has(productData, "category"))
        /\ (~Truthy(productData, "category") \/ ~LengthBetween(productData.category, 2, 60))
     THEN <<"Category must be between 2 and 60 characters.">> ELSE <<>>)
    \o
    (IF (~partial \/ Has(productData, "brand"))
        /\ Truthy(productData, "brand")
        /\ ~LengthBetween(productData.brand, 2, 60)
     THEN <<"Brand must be between 2 and 60 characters.">> ELSE <<>>)
    \o
    (IF (~partial \/ Has(productData, "stock"))
        /\ Has(productData, "stock") /\ productData.stock < 0
     THEN <<"Stock must be a non-negative integer.">> ELSE <<>>)
    \o
    (IF Has(productData, "tags") /\ ~productData.tags.isArray
     THEN <<"Tags must be an array of strings.">> ELSE <<>>)

\* value || ''
OrEmpty(obj, field) == IF Has(obj, field) THEN obj[field] ELSE <<>>

SanitizedTags(obj) ==
    IF Has(obj, "tags") /\ obj.tags.isArray
    THEN [i \in DOMAIN obj.tags.items |-> sanitizeText(obj.tags.items[i])]
    ELSE <<>>

\* Math.max(...products.map(p => parseInt(p.id, 10)))
\* The number of products taken for the highest id.
MaxProductIdByCount(productList) == Len(productList)

MaxProductId(productList) ==
    CHOOSE m \in {parseInt(productList[i].id) : i \in DOMAIN productList} :
        \A i \in DOMAIN productList : parseInt(productList[i].id) <= m

\* Lines 351-368; costPrice is kept in tenths.
NewProduct(productList, productData, time) ==
    [id            |-> IdString(MaxProductId(productList) + 1),
     name          |-> sanitizeText(productData.name),
     description   |-> sanitizeText(OrEmpty(productData, "description")),
     price         |-> productData.price,
     category      |-> sanitizeText(productData.category),
     brand         |-> sanitizeText(OrEmpty(productData, "brand")),
     stock         |-> IF Has(productData, "stock") THEN productData.stock ELSE 0,
     rating        |-> RatingNumber(0),
     tags          |-> SanitizedTags(productData),
     createdAt     |-> time,
     costPrice     |-> productData.price * 7,
     supplier      |-> <<"U", "n", "k", "n", "o", "w", "n">>,
     internalNotes |-> <<>>,
     adminOnly     |-> FALSE]

\* products.findIndex(p => p.id === productId), 0 for -1
FindIndex(productList, productId) ==
    IF \E i \in DOMAIN productList : productList[i].id = productId
    THEN CHOOSE i \in DOMAIN productList :
            /\ productList[i].id = productId
            /\ \A j \in 1..(i - 1) : productList[j].id # productId
    ELSE 0

\* Lines 406-415
UpdatedProduct(product, updateData) ==
    [f \in DOMAIN product |->
        CASE f = "name" /\ Has(updateData, "name") -> sanitizeText(updateData.name)
          [] f = "description" /\ Has(updateData, "description") ->
                sanitizeText(updateData.description)
          [] f = "price" /\ Has(updateData, "price") -> updateData.price
          [] f = "category" /\ Has(updateData, "category") ->
                sanitizeText(updateData.category)
          [] f = "brand" /\ Has(updateData, "brand") -> sanitizeText(updateData.brand)
          [] f = "stock" /\ Has(updateData, "stock") -> updateData.stock
          [] f = "tags" /\ Has(updateData, "tags") -> SanitizedTags(updateData)
          [] OTHER -> product[f]]

\* products[productIndex] = updatedProduct
ReplaceAt(productList, productIndex, product) ==
    [productList EXCEPT ![productIndex] = product]

\* products.splice(productIndex, 1)
Splice(productList, productIndex) ==
    SubSeq(productList, 1, productIndex - 1)
    \o SubSeq(productList, productIndex + 1, Len(productList))

\* A rebuild that leaves the response cache as it was.
RebuiltKeepingCache(cat, productList) ==
    [buildIndexes(productList) EXCEPT !.responseCache = cat.responseCache]
    @@ [generatedAt |-> cat.generatedAt]

\* A rebuild that stops before the trigram index.
RebuiltInPart(cat, productList) ==
    [buildIndexes(productList) EXCEPT !.trigramIndex = cat.trigramIndex]
    @@ [generatedAt |-> cat.generatedAt]

\* buildIndexes(products) after a mutation: generatedAt is kept.
Rebuilt(cat, productList) ==
    buildIndexes(productList) @@ [generatedAt |-> cat.generatedAt]

\* The route of POST /api/products, behind requireAdmin.
createProduct(cat, productData, time) ==
    LET errors == validateProductInput(productData, FALSE)
        newProduct == NewProduct(cat.products, productData, time)
    IN  IF Len(errors) > 0
        THEN [cat |-> cat,
              res |-> [op |-> "create", status |-> 400,
                       body |-> [error |-> "Validation failed", details |-> errors]]]
        ELSE [cat |-> Rebuilt(cat, Append(cat.products, newProduct)),
              res |-> [op |-> "create", status |-> 201,
                       body |-> [message |-> "Product created successfully",
                                 product |-> toPublicProduct(newProduct)]]]

\* The route of PUT /api/products/:productId, behind requireAdmin.
updateProduct(cat, productId, updateData) ==
    LET errors == validateProductInput(updateData, TRUE)
        productIndex == FindIndex(cat.products, productId)
        updatedProduct == UpdatedProduct(cat.products[productIndex], updateData)
    IN  IF ~IsIntMin1(productId)
        THEN [cat |-> cat,
              res |-> [op |-> "update", productId |-> productId, status |-> 400,
                       body |-> [error |-> "Invalid product ID"]]]
        ELSE IF Len(errors) > 0
        THEN [cat |-> cat,
              res |-> [op |-> "update", productId |-> productId, status |-> 400,
                       body |-> [error |-> "Validation failed", details |-> errors]]]
        ELSE IF productIndex = 0
        THEN [cat |-> cat,
              res |-> [op |-> "update", productId |-> productId, status |-> 404,
                       body |-> [error |-> "Product not found"]]]
        ELSE [cat |-> Rebuilt(cat, ReplaceAt(cat.products, productIndex, updatedProduct)),
              res |-> [op |-> "update", productId |-> productId, status |-> 200,
                       body |-> [message |-> "Product updated successfully",
                                 product |-> toPublicProduct(updatedProduct)]]]

\* The route of DELETE /api/products/:productId, behind requireAdmin.
deleteProduct(cat, productId) ==
    LET productIndex == FindIndex(cat.products, productId)
    IN  IF ~IsIntMin1(productId)
        THEN [cat |-> cat,
              res |-> [op |-> "delete", productId |-> productId, status |-> 400,
                       body |-> [error |-> "Invalid product ID"]]]
        ELSE IF productIndex = 0
        THEN [cat |-> cat,
              res |-> [op |-> "delete", productId |-> productId, status |-> 404,
                       body |-> [error |-> "Product not found"]]]
        ELSE [cat |-> Rebuilt(cat, Splice(cat.products, productIndex)),
              res |-> [op |-> "delete", productId |-> productId, status |-> 200,
                       body |-> [message |-> "Product deleted successfully"]]]

-----------------------------------------------------------------------------
(* The requests of the model *)

Str_abcd == <<"a", "b", "c", "d">>
Str_abc_bcd == <<"a", "b", "c", " ", "b", "c", "d">>
Str_Product == <<"P", "r", "o", "d", "u", "c", "t">>

AdminToken == Bearer("k", [sub |-> "admin-1", role |-> "admin"])

\* Query strings of GET /api/products
Queries ==
    { [x \in {} |-> ""],
      [search |-> Str_Product, category |-> Books, sortBy |-> "price",
       sortOrder |-> "desc", limit |-> "1", admin |-> "true", internal |-> "yes"] }

\* :productId of GET, PUT and DELETE /api/products/:productId
ProductIdParams == {IdString(i) : i \in 1..MaxId} \cup {"x"}

ValidCreateBody == [name |-> Str_abc_bcd, price |-> 10, category |-> Books]
InvalidCreateBody == [name |-> <<"x">>, price |-> 0]

\* POST /api/products
CreateRequests ==
    { [authorization |-> AdminToken, body |-> ValidCreateBody],
      [authorization |-> AdminToken, body |-> InvalidCreateBody],
      [authorization |-> NoAuthorization, body |-> ValidCreateBody] }

ValidUpdateBody ==
    [name |-> <<" ", "A", "b", "&", "\t", "\t", "c", "D">>, description |-> Str_abcd,
     price |-> 20]
InvalidUpdateBody == [price |-> 0]

\* PUT /api/products/:productId
UpdateRequests ==
    { [authorization |-> AdminToken, productId |-> id, body |-> ValidUpdateBody] :
        id \in ProductIdParams }
    \cup
    { [authorization |-> AdminToken, productId |-> "1", body |-> InvalidUpdateBody],
      [authorization |-> NoAuthorization, productId |-> "1", body |-> ValidUpdateBody] }

\* DELETE /api/products/:productId
DeleteRequests ==
    { [authorization |-> AdminToken, productId |-> id] : id \in ProductIdParams }
    \cup { [authorization |-> NoAuthorization, productId |-> "1"] }

-----------------------------------------------------------------------------
(* Actions: one per request handler *)

\* GET /api/products
ListProducts(q) ==
    \E draws \in DrawsNeeded :
        \E out \in {listProducts(ensureProductsFresh(draws), q, now)} :
            /\ Install(out.cat)
            /\ res' = out.res
            /\ UNCHANGED <<now, JWT_SECRET, otherRouters>>

\* GET /api/products/:productId
GetProduct(productId) ==
    \E draws \in DrawsNeeded :
        \E cat \in {ensureProductsFresh(draws)} :
            /\ Install(cat)
            /\ res' = getProduct(cat, productId)
            /\ UNCHANGED <<now, JWT_SECRET, otherRouters>>

\* A request answered by requireAdmin itself.
Denied(op, authorization) ==
    LET auth == requireAdmin(authorization, JWT_SECRET)
    IN  /\ auth.status # 0
        /\ res' = [op |-> op, authorization |-> authorization, status |-> auth.status,
                   body |-> auth.body]
        /\ UNCHANGED <<products, productById, trigramIndex, wordIndex, categoryIndex,
                       generatedAt, responseCache, now, JWT_SECRET, otherRouters>>

\* POST /api/products
CreateProduct(authorization, productData) ==
    \/ Denied("create", authorization)
    \/ /\ requireAdmin(authorization, JWT_SECRET).status = 0
       /\ \E draws \in DrawsNeeded :
            \E out \in {createProduct(ensureProductsFresh(draws), productData, now)} :
                /\ out.res.status = 201 =>
                     /\ Len(out.cat.products) <= MaxProducts
                     /\ MaxProductId(out.cat.products) <= MaxId
                /\ Install(out.cat)
                /\ res' = (("authorization" :> authorization) @@ out.res)
                /\ UNCHANGED <<now, JWT_SECRET, otherRouters>>

\* PUT /api/products/:productId
UpdateProduct(authorization, productId, updateData) ==
    \/ Denied("update", authorization)
    \/ /\ requireAdmin(authorization, JWT_SECRET).status = 0
       /\ \E draws \in DrawsNeeded :
            \E out \in {updateProduct(ensureProductsFresh(draws), productId, updateData)} :
                /\ Install(out.cat)
                /\ res' = (("authorization" :> authorization)
                            @@ ("updateData" :> updateData) @@ out.res)
                /\ UNCHANGED <<now, JWT_SECRET, otherRouters>>

\* DELETE /api/products/:productId
DeleteProduct(authorization, productId) ==
    \/ Denied("delete", authorization)
    \/ /\ requireAdmin(authorization, JWT_SECRET).status = 0
       /\ \E draws \in DrawsNeeded :
            \E out \in {deleteProduct(ensureProductsFresh(draws), productId)} :
                /\ Install(out.cat)
                /\ res' = (("authorization" :> authorization) @@ out.res)
                /\ UNCHANGED <<now, JWT_SECRET, otherRouters>>

-----------------------------------------------------------------------------
(* The server: generateProducts() runs once on startup (line 200) *)

Started(cat) ==
    /\ products = cat.products
    /\ productById = cat.productById
    /\ trigramIndex = cat.trigramIndex
    /\ wordIndex = cat.wordIndex
    /\ categoryIndex = cat.categoryIndex
    /\ responseCache = cat.responseCache
    /\ generatedAt = cat.generatedAt

Init ==
    /\ now = 0
    /\ JWT_SECRET = "k"
    /\ res = [op |-> "none"]
    /\ RoutersStarted
    /\ \E draws \in GenDrawSeqs : Started(generateProducts(draws, 0))

Next ==
    \/ \E q \in Queries : ListProducts(q)
    \/ \E productId \in ProductIdParams : GetProduct(productId)
    \/ \E r \in CreateRequests : CreateProduct(r.authorization, r.body)
    \/ \E r \in UpdateRequests : UpdateProduct(r.authorization, r.productId, r.body)
    \/ \E r \in DeleteRequests : DeleteProduct(r.authorization, r.productId)

Spec == Init /\ [][Next]_vars

-----------------------------------------------------------------------------
(* Properties of the catalog, its indexes and the response cache *)

\* The payload the list route computes on catalog cat.
FreshPayload(cat, params) ==
    BuildPayload(SortProducts(FilterProducts(cat, params), params), params)

\* Every entry of the cache belongs to a query string of Queries and holds
\* the payload computed for it on cat.
CacheIsFresh(cat) ==
    /\ DOMAIN cat.responseCache \subseteq {getCacheKey(ParseQuery(q)) : q \in Queries}
    /\ \A q \in Queries :
            getCacheKey(ParseQuery(q)) \in DOMAIN cat.responseCache =>
                cat.responseCache[getCacheKey(ParseQuery(q))].payload
                    = FreshPayload(cat, ParseQuery(q))

\* C3: a list response served from the cache is the payload computed on the
\* products of this state, and so is every payload the cache holds: no payload
\* computed before a create, update or delete is returned after it.
C3_CacheInvalidation ==
    /\ CacheIsFresh(Catalog)
    /\ (res.op = "list" /\ res.fromCache) =>
            res.body = FreshPayload(Catalog, ParseQuery(res.query))

\* A list answered from the cache after a product was created, counting it.
C3_Witness ==
    /\ res.op = "list"
    /\ res.fromCache
    /\ Len(products) > ProductCount
    /\ res.body.pagination.totalItems = Len(products)

\* Position i is not inside a word of text.
WordBoundary(text, i) == i < 1 \/ i > Len(text) \/ ~IsAlnum(text[i])

\* text[i..j] is a maximal run of letters and digits.
IsWordAt(text, i, j) ==
    /\ WordBoundary(text, i - 1)
    /\ WordBoundary(text, j + 1)
    /\ \A k \in i..j : IsAlnum(text[k])

\* The words of text that the word index keeps: the maximal runs of letters
\* and digits of two characters or more.
WordsIn(text) ==
    UNION {{SubSeq(text, i, j) : j \in {k \in (i + 1)..Len(text) : IsWordAt(text, i, k)}} :
                i \in {k \in DOMAIN text : WordBoundary(text, k - 1)}}

\* The keys a product has in the index of this kind.
KeysOf(kind, product) ==
    CASE kind = "category" -> {product.category}
      [] kind = "trigram"  -> {SubSeq(product.searchableText, k, k + 2) :
                                    k \in 1..(Len(product.searchableText) - 2)}
      [] kind = "word"     -> WordsIn(product.searchableText)

\* The keys of this kind of each product of cat, by position.
KeysByPosition(cat, kind) ==
    [i \in DOMAIN cat.products |-> KeysOf(kind, cat.products[i])] @@ <<>>

\* The keys of indexMap are the keys the products of cat have, and the posting
\* list of a key holds, once each, the ids of the products of cat that have it.
PostingsAre(cat, indexMap, kind) ==
    \A keys \in {KeysByPosition(cat, kind)} :
        /\ DOMAIN indexMap = UNION {keys[i] : i \in DOMAIN keys}
        /\ \A key \in DOMAIN indexMap :
                /\ Range(indexMap[key]) =
                        {cat.products[i].id : i \in {k \in DOMAIN keys : key \in keys[k]}}
                /\ Len(indexMap[key]) = Cardinality(Range(indexMap[key]))

PrimaryIndexDerived(cat) ==
    /\ DOMAIN cat.productById = {cat.products[i].id : i \in DOMAIN cat.products}
    /\ \A i \in DOMAIN cat.products :
            LET product == cat.products[i]
            IN  /\ cat.productById[product.id] = product
                /\ product.searchableText =
                        normalizeText(product.name \o <<" ">> \o product.description)

IndexesDerived(cat) ==
    /\ PrimaryIndexDerived(cat)
    /\ PostingsAre(cat, cat.categoryIndex, "category")
    /\ PostingsAre(cat, cat.trigramIndex, "trigram")
    /\ PostingsAre(cat, cat.wordIndex, "word")

\* C4: in every state the primary, word, trigram and category indexes are the
\* ones derived from the products of that state: a posting list holds exactly
\* the ids of the products with its key, and each of these ids is in the
\* primary index.
C4_IndexesDerived ==
    /\ IndexesDerived(Catalog)
    /\ \A key \in DOMAIN categoryIndex :
            Range(categoryIndex[key]) \subseteq DOMAIN productById
    /\ \A key \in DOMAIN trigramIndex :
            Range(trigramIndex[key]) \subseteq DOMAIN productById
    /\ \A key \in DOMAIN wordIndex :
            Range(wordIndex[key]) \subseteq DOMAIN productById

\* An update went through and the word index has a word of the escaped name.
C4_Witness ==
    /\ res.op = "update"
    /\ res.status = 200
    /\ <<"a", "m", "p">> \in DOMAIN wordIndex
    /\ Len(products) > 1

\* The catalog is the one buildIndexes leaves for its product list.
FullyRebuilt(cat) ==
    \A built \in {buildIndexes(cat.products)} :
        /\ cat.products = built.products
        /\ cat.productById = built.productById
        /\ cat.trigramIndex = built.trigramIndex
        /\ cat.wordIndex = built.wordIndex
        /\ cat.categoryIndex = built.categoryIndex

\* C5: each handler runs to its end before another starts, so a step that
\* changes the product list is the whole mutation: after it the four indexes
\* are the fully rebuilt ones of the new list and the cache holds nothing
\* older, and a step that leaves the product list leaves the four indexes.
C5_MutationAtomic ==
    [][ /\ products' # products =>
                \A after \in {Catalog'} : FullyRebuilt(after) /\ CacheIsFresh(after)
        /\ products' = products =>
                UNCHANGED <<productById, trigramIndex, wordIndex, categoryIndex>> ]_vars

\* A product was created or deleted: products remain and the cache is empty.
C5_Witness ==
    /\ res.op \in {"create", "delete"}
    /\ res.status \in {200, 201}
    /\ products # <<>>
    /\ responseCache = EmptyMap

PublicFields ==
    {"id", "name", "description", "price", "category", "brand", "stock", "rating",
     "tags", "createdAt"}

\* The product objects of the last response.
ReturnedProducts ==
    CASE res.op = "list" -> Range(res.body.products)
      [] res.op = "get" /\ res.status = 200 -> {res.body}
      [] res.op \in {"create", "update"} /\ res.status \in {200, 201} -> {res.body.product}
      [] OTHER -> {}

\* C6: every product of a response, computed or cached, whatever else the
\* query string carries, has the public fields and no other.
C6_PublicFieldsOnly ==
    /\ \A product \in ReturnedProducts : DOMAIN product = PublicFields
    /\ \A cacheKey \in DOMAIN responseCache :
            \A product \in Range(responseCache[cacheKey].payload.products) :
                DOMAIN product = PublicFields

\* A cached list response to a query that carries admin=true and internal=yes.
C6_Witness ==
    /\ res.op = "list"
    /\ res.fromCache
    /\ Has(res.query, "admin") /\ Has(res.query, "internal")
    /\ res.body.products # <<>>

-----------------------------------------------------------------------------
(* Search, sort and pagination on catalogs built by the mutation routes *)

Str_Red == <<"R", "e", "d">>
Str_shoe == <<"s", "h", "o", "e">>
Str_RedShoe == <<"R", "e", "d", " ", "S", "h", "o", "e">>
Str_BlueShoe == <<"B", "l", "u", "e", " ", "S", "h", "o", "e">>
Str_RedHat == <<"R", "e", "d", " ", "H", "a", "t">>
Str_NonExistent == <<"N", "o", "n", "E", "x", "i", "s", "t", "e", "n", "t">>
Clothing == <<"C", "l", "o", "t", "h", "i", "n", "g">>

\* A successful request of an admin, as a step of a script.
Create(body) == [op |-> "create", body |-> body]
Update(productId, body) == [op |-> "update", productId |-> productId, body |-> body]
Delete(productId) == [op |-> "delete", productId |-> productId]

\* The catalog a route leaves.
AfterRequest(cat, request) ==
    CASE request.op = "create" -> createProduct(cat, request.body, 0).cat
      [] request.op = "update" -> updateProduct(cat, request.productId, request.body).cat
      [] request.op = "delete" -> deleteProduct(cat, request.productId).cat

\* The catalog after the requests i to j of the script, in this order: the
\* requests up to the middle one first, then the others.
RECURSIVE AfterRequests(_, _, _, _)
AfterRequests(cat, script, i, j) ==
    IF i > j THEN cat
    ELSE IF i = j THEN AfterRequest(cat, script[i])
    ELSE CHOOSE last \in {AfterRequests(half, script, ((i + j) \div 2) + 1, j) :
                half \in {AfterRequests(cat, script, i, (i + j) \div 2)}} : TRUE

\* The generated products are deleted at the end of a script.
DeleteGenerated == [i \in 1..ProductCount |-> Delete(IdString(i))]

\* The three products of the scenario, in Clothing.
ScenarioScript ==
    << Create([name |-> Str_RedShoe, price |-> 30, category |-> Clothing]),
       Create([name |-> Str_BlueShoe, price |-> 20, category |-> Clothing]),
       Create([name |-> Str_RedHat, price |-> 10, category |-> Clothing]) >>
    \o DeleteGenerated

\* Texts that share trigrams and words without containing one another.
TextScript ==
    << Create([name |-> Str_abc_bcd, price |-> 10, category |-> Books]),
       Create([name |-> <<"x", "a", "b", "c", "d">>, description |-> <<"a", "b">>,
               price |-> 10, category |-> Books]),
       Create([name |-> <<"a", "b">>, price |-> 20, category |-> Clothing]) >>

\* Two products that agree on every sort field, behind one that sorts after
\* them and before one that sorts before them.
SortScript ==
    << Create([name |-> <<"b", "b">>, price |-> 20, category |-> Clothing,
               brand |-> BrandB, stock |-> 2]),
       Create([name |-> <<"a", "b">>, price |-> 10, category |-> Books,
               brand |-> BrandA, stock |-> 1]),
       Create([name |-> <<"a", "b">>, price |-> 10, category |-> Books,
               brand |-> BrandA, stock |-> 1]),
       Create([name |-> <<"a", "a">>, price |-> 5, category |-> Books,
               brand |-> BrandA, stock |-> 0]) >>

Scripts == {<<>>, ScenarioScript, TextScript, SortScript}

\* Every substring of text of at most maxLen characters.
Substrings(text, maxLen) ==
    UNION {{SubSeq(text, i, j) : j \in i..Min(i + maxLen - 1, Len(text))} :
            i \in DOMAIN text}

SearchStrings ==
    UNION {Substrings(normalizeText(text), 3) :
            text \in {Str_abc_bcd, <<"x", "a", "b", "c", "d", " ", "a", "b">>,
                      Str_RedShoe, Str_RedHat}}
    \cup {Str_Red, Str_shoe, Str_abcd, Str_Product,
          <<" ", "B", "C", "\t", " ", "b", "c", "D", " ">>, <<"\t">>}

RawNumbers == {"1", "2", "3", "0", "-1", "1.5", "abc", "200"}

SearchQueries ==
    {[search |-> text] : text \in SearchStrings}
    \cup {[search |-> text, category |-> Books] : text \in SearchStrings}

SortQueries ==
    UNION {{[sortBy |-> field], [sortBy |-> field, sortOrder |-> "desc"],
            [sortBy |-> field, sortOrder |-> "asc", category |-> Books]} :
                field \in ALLOWED_SORT_FIELDS \cup {"costPrice"}}
    \cup {[sortBy |-> "price", sortOrder |-> "DESC"],
          [sortBy |-> "Price", sortOrder |-> "descending"]}

PageQueries ==
    {[page |-> page, limit |-> limit] : page \in RawNumbers, limit \in RawNumbers}
    \cup {[page |-> page, limit |-> "2", sortBy |-> "price", category |-> Books] :
            page \in RawNumbers}

CategoryQueries ==
    {[category |-> category] : category \in {Books, Clothing, Str_NonExistent}}

\* Pages of one product each, and searches and categories with characters
\* that a URL has to escape.
LinkQueries ==
    {[page |-> page, limit |-> "1", search |-> Str_shoe, sortBy |-> "price",
      sortOrder |-> "desc"] : page \in {"1", "2", "3"}}
    \cup {[page |-> page, search |-> <<"x", " ", "y", "&", "z">>,
           category |-> <<"A", "&", "B", ";", "c", "#">>] : page \in {"1", "2"}}
    \cup {[page |-> "2", limit |-> "1", search |-> <<"r", "e", "d", " ", "s">>]}

WideQueries ==
    SearchQueries \cup SortQueries \cup PageQueries \cup CategoryQueries \cup LinkQueries

\* The cache holds at most the entry of this query: each query is put to the
\* catalog alone, once or repeatedly.
AskedAlone(q) == DOMAIN responseCache \subseteq {getCacheKey(ParseQuery(q))}

InitQuery ==
    /\ now = 0
    /\ JWT_SECRET = "k"
    /\ res = [op |-> "none"]
    /\ RoutersStarted
    /\ \E draws \in GenDrawSeqs, script \in Scripts :
            Started(AfterRequests(generateProducts(draws, 0), script, 1, Len(script)))

NextQuery == \E q \in WideQueries : AskedAlone(q) /\ ListProducts(q)

SpecQuery == InitQuery /\ [][NextQuery]_vars

-----------------------------------------------------------------------------
(* Properties of the list route *)

\* The last response is a list that holds every matched product on its page.
WholeList ==
    /\ res.op = "list"
    /\ res.body.pagination.currentPage = 1
    /\ res.body.pagination.totalPages <= 1

ReturnedIds == {res.body.products[i].id : i \in DOMAIN res.body.products}

\* C1: a search without category returns every product whose searchable text
\* contains the query as it was sent, when the query has a word of two or
\* more characters or is at least three characters long.
C1_NoFalseNegatives ==
    (WholeList /\ Has(res.query, "search") /\ ~Has(res.query, "category")) =>
        \A i \in DOMAIN products :
            ( /\ Includes(products[i].searchableText, res.query.search)
              /\ Len(getWords(res.query.search)) >= 1 \/ Len(res.query.search) >= 3 )
                => products[i].id \in ReturnedIds

\* C2: when the normalized search query is not empty, with or without a
\* category, the searchable text of every returned product contains the
\* normalized query.
C2_NoFalsePositives ==
    (res.op = "list" /\ Has(res.query, "search")
        /\ normalizeText(res.query.search) # <<>>) =>
        \A id \in ReturnedIds :
            Includes(productById[id].searchableText, normalizeText(res.query.search))

\* The products on page n of the query of the last response.
PageOfLast(n) ==
    listProducts(Catalog, ("page" :> IdString(n)) @@ res.query, now).res.body.products

RECURSIVE SumOfPages(_)
SumOfPages(n) == IF n = 0 THEN 0 ELSE Len(PageOfLast(n)) + SumOfPages(n - 1)

\* n is the least number of pages of `limit` items that hold `count` items.
IsCeiling(n, count, limit) ==
    /\ n * limit >= count
    /\ n = 0 \/ (n - 1) * limit < count

\* C7: the pages 1..totalPages of a query hold totalItems products together,
\* and totalPages is ceil(totalItems / limit).
C7_PagesSumToTotal ==
    res.op = "list" =>
        /\ SumOfPages(res.body.pagination.totalPages) = res.body.pagination.totalItems
        /\ IsCeiling(res.body.pagination.totalPages, res.body.pagination.totalItems,
                     res.body.pagination.itemsPerPage)

\* A list of three pages, the last of them not full.
C7_Witness ==
    /\ res.op = "list"
    /\ res.body.pagination.totalPages = 3
    /\ res.body.pagination.itemsPerPage = 2
    /\ res.body.pagination.totalItems = 5

\* C8: a page behind the last one is answered with status 200 and an empty
\* list of products.
C8_PageBeyondLast ==
    (res.op = "list"
        /\ res.body.pagination.currentPage > res.body.pagination.totalPages) =>
        /\ res.status = 200
        /\ res.body.products = <<>>

\* Page 3 of a list that has products on one or two pages.
C8_Witness ==
    /\ res.op = "list"
    /\ res.body.pagination.currentPage = 3
    /\ res.body.pagination.totalPages \in {1, 2}
    /\ res.body.products = <<>>

\* The matched products of the last response, in their order before the sort.
BeforeSort == FilterProducts(Catalog, ParseQuery(res.query))

\* The place of product id in the list of the last response.
PlaceOf(id) == CHOOSE i \in DOMAIN res.body.products : res.body.products[i].id = id

\* C9: for every sort field and both orders, two matched products with the
\* same value of the sort field are returned in the order they had before
\* the sort.
C9_StableSort ==
    WholeList =>
        \A i, j \in DOMAIN BeforeSort :
            (i < j /\ BeforeSort[i][ParseQuery(res.query).sortBy]
                        = BeforeSort[j][ParseQuery(res.query).sortBy])
                => PlaceOf(BeforeSort[i].id) < PlaceOf(BeforeSort[j].id)

\* A descending sort by price that moved products and returned two of the
\* same price.
C9_Witness ==
    /\ WholeList
    /\ Has(res.query, "sortBy") /\ res.query.sortBy = "price"
    /\ Has(res.query, "sortOrder") /\ res.query.sortOrder = "desc"
    /\ \E i, j \in DOMAIN res.body.products :
            i < j /\ res.body.products[i].price = res.body.products[j].price
    /\ [i \in DOMAIN BeforeSort |-> BeforeSort[i].id]
            # [i \in DOMAIN res.body.products |-> res.body.products[i].id]

\* The catalog is the three products of the scenario.
IsScenario ==
    [i \in DOMAIN products |-> products[i].name]
        = <<Str_RedShoe, Str_BlueShoe, Str_RedHat>>

\* C10: on the catalog Red Shoe, Blue Shoe, Red Hat, search=Red returns the
\* first and the third product, search=shoe the first and the second, and
\* category=NonExistent no product and totalItems 0.
C10_Scenario ==
    (IsScenario /\ res.op = "list") =>
        /\ res.query = [search |-> Str_Red] =>
                /\ ReturnedIds = {products[1].id, products[3].id}
                /\ Len(res.body.products) = 2
        /\ res.query = [search |-> Str_shoe] =>
                /\ ReturnedIds = {products[1].id, products[2].id}
                /\ Len(res.body.products) = 2
        /\ res.query = [category |-> Str_NonExistent] =>
                /\ res.body.products = <<>>
                /\ res.body.pagination.totalItems = 0

\* search=shoe was answered on the scenario's catalog with two products.
C10_Witness ==
    /\ IsScenario
    /\ res.op = "list"
    /\ res.query = [search |-> Str_shoe]
    /\ Len(res.body.products) = 2

\* The integers among the raw values of page and limit, with their values.
IntegerTexts == {"0", "1", "2", "3", "-1", "200"}

IntegerOf(raw) ==
    CASE raw = "0" -> 0 [] raw = "1" -> 1 [] raw = "2" -> 2 [] raw = "3" -> 3
      [] raw = "-1" -> 0 - 1 [] raw = "200" -> 200

\* The parameter of the last request is an integer.
GivenInteger(name) == Has(res.query, name) /\ res.query[name] \in IntegerTexts

\* C12: every list request is answered, with a limit in 1..100 (the given
\* integer clamped, 25 when absent or not an integer), a page of at least 1
\* (the given positive integer, else 1), a sortBy of the allow-list (name for
\* any other value) and sortOrder desc only when it is given as desc.
C12_ParametersClamped ==
    res.op = "list" =>
        /\ res.status = 200
        /\ res.body.pagination.itemsPerPage \in 1..100
        /\ res.body.pagination.itemsPerPage =
                IF ~GivenInteger("limit") THEN 25
                ELSE IF IntegerOf(res.query.limit) < 1 THEN 1
                ELSE IF IntegerOf(res.query.limit) > 100 THEN 100
                ELSE IntegerOf(res.query.limit)
        /\ res.body.pagination.currentPage >= 1
        /\ res.body.pagination.currentPage =
                IF GivenInteger("page") /\ IntegerOf(res.query.page) > 0
                THEN IntegerOf(res.query.page) ELSE 1
        /\ ParseQuery(res.query).sortBy \in
                {"name", "price", "category", "brand", "stock", "rating", "createdAt"}
        /\ DOMAIN responseCache =
                {getCacheKey(
                    [page      |-> res.body.pagination.currentPage,
                     limit     |-> res.body.pagination.itemsPerPage,
                     search    |-> IF Has(res.query, "search") THEN res.query.search
                                   ELSE <<>>,
                     category  |-> IF Has(res.query, "category") THEN res.query.category
                                   ELSE <<>>,
                     sortBy    |-> IF Has(res.query, "sortBy") /\ res.query.sortBy \in
                                        {"name", "price", "category", "brand", "stock",
                                         "rating", "createdAt"}
                                   THEN res.query.sortBy ELSE "name",
                     sortOrder |-> IF Has(res.query, "sortOrder")
                                        /\ res.query.sortOrder = "desc"
                                   THEN "desc" ELSE "asc"])}

\* A request with limit=200 and page=1.5 was answered with limit 100, page 1.
C12_Witness ==
    /\ res.op = "list"
    /\ res.query = [page |-> "1.5", limit |-> "200"]
    /\ res.body.pagination.itemsPerPage = 100
    /\ res.body.pagination.currentPage = 1

-----------------------------------------------------------------------------
(* Pagination of a result of twenty-five products *)

\* Twenty-five products of one category, each with a price of its own.
PageScript ==
    [i \in 1..25 |->
        Create([name |-> <<"i", "t", "e", "m">>, price |-> ((i * 7) % 25) + 1,
                category |-> Clothing])]

\* Query strings that page through the catalog and through the category.
PagingQueries ==
    UNION {{[page |-> page, limit |-> limit],
            [page |-> page, limit |-> limit, category |-> Clothing],
            [page |-> page, limit |-> limit, sortBy |-> "price"],
            [page |-> page, limit |-> limit, sortBy |-> "price", category |-> Clothing],
            [page |-> page, limit |-> limit, sortBy |-> "price", sortOrder |-> "desc",
             category |-> Clothing]} :
                page \in {"1", "2", "3", "4"}, limit \in {"10", "12"}}

InitPaging ==
    /\ now = 0
    /\ JWT_SECRET = "k"
    /\ res = [op |-> "none"]
    /\ RoutersStarted
    /\ \E draws \in GenDrawSeqs :
            Started(AfterRequests(generateProducts(draws, 0), PageScript, 1, Len(PageScript)))

NextPaging == \E q \in PagingQueries : AskedAlone(q) /\ ListProducts(q)

SpecPaging == InitPaging /\ [][NextPaging]_vars

\* The matched products of the last response, sorted, as they are sent.
SortedResult ==
    LET params == ParseQuery(res.query)
        sorted == SortProducts(FilterProducts(Catalog, params), params)
    IN  [i \in DOMAIN sorted |-> toPublicProduct(sorted[i])]

\* C11: page 3 with limit 10 of a result of 25 items holds the items 21 to 25
\* of the sorted result, with totalPages 3 and nextPage null.
C11_PageThreeOfTwentyFive ==
    (res.op = "list"
        /\ res.body.pagination.totalItems = 25
        /\ res.body.pagination.itemsPerPage = 10
        /\ res.body.pagination.currentPage = 3) =>
        /\ res.body.products = SubSeq(SortedResult, 21, 25)
        /\ Len(res.body.products) = 5
        /\ res.body.pagination.totalPages = 3
        /\ res.body.pagination.nextPage = Null
        /\ (Has(res.query, "sortBy") /\ res.query.sortBy = "price"
                /\ ~Has(res.query, "sortOrder")) =>
                [i \in 1..5 |-> res.body.products[i].price] = <<21, 22, 23, 24, 25>>

\* Page 3 of the twenty-five products of a category by price, ten a page.
C11_Witness ==
    /\ res.op = "list"
    /\ res.query = [page |-> "3", limit |-> "10", sortBy |-> "price", category |-> Clothing]
    /\ res.body.pagination.totalItems = 25
    /\ Len(res.body.products) = 5

-----------------------------------------------------------------------------
(* The response cache under a running clock *)

MaxTicks == 3
TickMs == CACHE_TTL_MS \div 2

\* Time passes.
Tick ==
    /\ now < MaxTicks * TickMs
    /\ now' = now + TickMs
    /\ UNCHANGED <<products, productById, trigramIndex, wordIndex, categoryIndex,
                   generatedAt, responseCache, JWT_SECRET, otherRouters, res>>

Str_product == <<"p", "r", "o", "d", "u", "c", "t">>

\* Two searches that differ in letter case only, and one in a category.
CacheQueries ==
    { [search |-> Str_Product],
      [search |-> Str_product],
      [search |-> Str_Product, category |-> Books] }

NextCache ==
    \/ \E q \in CacheQueries : ListProducts(q)
    \/ Tick

SpecCache == Init /\ [][NextCache]_vars

\* Query strings whose effective values differ where a key without field
\* names or without escaping would run them together.
ProbeQueries ==
    CacheQueries \cup
    { [page |-> "1", limit |-> "12"],
      [page |-> "11", limit |-> "2"],
      [search |-> <<"x", "\"", ",", "\"", "c", "\"", ":", "\"", "y">>,
       category |-> <<"z">>],
      [search |-> <<"x">>,
       category |-> <<"y", "\"", ",", "\"", "c", "\"", ":", "\"", "z">>],
      [search |-> <<"a", "\\">>, category |-> <<"\"">>],
      [search |-> <<"a", "\\", "\"">>] }

\* C13: queries with different effective values never share a cache key, so
\* every entry of the cache, and every response served from the cache, is the
\* payload of the query it is looked up with.
C13_DistinctQueriesDistinctKeys ==
    /\ \A q1 \in ProbeQueries : \A q2 \in ProbeQueries :
            ParseQuery(q1) # ParseQuery(q2) =>
                getCacheKey(ParseQuery(q1)) # getCacheKey(ParseQuery(q2))
    /\ \A q \in CacheQueries :
            getCacheKey(ParseQuery(q)) \in DOMAIN responseCache =>
                responseCache[getCacheKey(ParseQuery(q))].payload
                    = FreshPayload(Catalog, ParseQuery(q))
    /\ (res.op = "list" /\ res.fromCache) =>
            res.body = FreshPayload(Catalog, ParseQuery(res.query))

\* A search was served from the cache while the cache also held the different
\* payload of the same search within a category.
C13_Witness ==
    /\ res.op = "list"
    /\ res.fromCache
    /\ res.query = [search |-> Str_Product]
    /\ getCacheKey(ParseQuery([search |-> Str_Product, category |-> Books]))
            \in DOMAIN responseCache
    /\ responseCache[getCacheKey(ParseQuery([search |-> Str_Product, category |-> Books]))].payload
            # res.body

\* Two query strings mean the same: the normalized search terms are equal and
\* the other effective values are equal.
SameMeaning(q1, q2) ==
    /\ normalizeText(ParseQuery(q1).search) = normalizeText(ParseQuery(q2).search)
    /\ [ParseQuery(q1) EXCEPT !.search = <<>>] = [ParseQuery(q2) EXCEPT !.search = <<>>]

\* The entry of the query string q is in the cache and has not expired.
LiveEntry(q) ==
    /\ getCacheKey(ParseQuery(q)) \in DOMAIN responseCache
    /\ ~(responseCache[getCacheKey(ParseQuery(q))].expiresAt < now)

\* C14: a list request whose query means the same as one with a live entry
\* in the cache has the same cache key and is served from that entry.
C14_SameMeaningSameEntry ==
    [][\A first \in CacheQueries :
            (now' = now /\ res'.op = "list" /\ SameMeaning(first, res'.query)
                /\ LiveEntry(first)) =>
                    /\ getCacheKey(ParseQuery(res'.query)) = getCacheKey(ParseQuery(first))
                    /\ res'.fromCache]_vars

\* The time an entry was stored at (line 96).
StoredAt(entry) == entry.expiresAt - CACHE_TTL_MS

\* C15: a list request that finds an expired entry under its key is not served
\* from it: the response is computed again and stored in its place; a response
\* served from the cache comes from an entry stored at most CACHE_TTL_MS ago.
C15_LazyExpiry ==
    [][(now' = now /\ res'.op = "list") =>
            \A cacheKey \in {getCacheKey(ParseQuery(res'.query))} :
                /\ (cacheKey \in DOMAIN responseCache
                        /\ responseCache[cacheKey].expiresAt < now) =>
                        /\ ~res'.fromCache
                        /\ res'.body = FreshPayload(Catalog, ParseQuery(res'.query))
                        /\ StoredAt(responseCache'[cacheKey]) = now
                /\ res'.fromCache =>
                        /\ cacheKey \in DOMAIN responseCache
                        /\ now - StoredAt(responseCache[cacheKey]) <= CACHE_TTL_MS
                        /\ res'.body = responseCache[cacheKey].payload]_vars

\* More than the time to live after the start a search was computed again and
\* stored, while an expired entry that was not asked for is still in the map.
C15_Witness ==
    /\ res.op = "list"
    /\ ~res.fromCache
    /\ res.query = [search |-> Str_Product]
    /\ now > CACHE_TTL_MS
    /\ StoredAt(responseCache[getCacheKey(ParseQuery(res.query))]) = now
    /\ \E cacheKey \in DOMAIN responseCache : responseCache[cacheKey].expiresAt < now

-----------------------------------------------------------------------------
(* buildIndexes called again on the product list it has indexed *)

\* buildIndexes(products)
BuildIndexes ==
    \E built \in {Rebuilt(Catalog, products)} :
        /\ Install(built)
        /\ UNCHANGED <<now, JWT_SECRET, otherRouters, res>>

NextIndex ==
    \/ \E q \in SortQueries : AskedAlone(q) /\ ListProducts(q)
    \/ BuildIndexes

SpecIndex == InitQuery /\ [][NextIndex]_vars

\* C16: buildIndexes called on the product list of a catalog that an earlier
\* call has indexed leaves every product's searchableText and the four indexes
\* as they are, and a further call gives the same again.
C16_BuildIndexesIdempotent ==
    [][(res' = res /\ now' = now) =>
            \A once \in {buildIndexes(products)} :
                \A twice \in {buildIndexes(once.products)} :
                    /\ twice = once
                    /\ products' = once.products
                    /\ productById' = once.productById
                    /\ trigramIndex' = once.trigramIndex
                    /\ wordIndex' = once.wordIndex
                    /\ categoryIndex' = once.categoryIndex
                    /\ UNCHANGED <<products, productById, trigramIndex, wordIndex,
                                   categoryIndex>>]_vars

\* buildIndexes ran after a list response was stored: the cache is empty again
\* and the catalog has a word that two products share.
C16_Witness ==
    /\ res.op = "list"
    /\ ~res.fromCache
    /\ responseCache = EmptyMap
    /\ Len(products) >= 2
    /\ \E word \in DOMAIN wordIndex : Len(wordIndex[word]) >= 2

-----------------------------------------------------------------------------
(* The page links of a list response, read back as a client reads them *)

\* The pieces of s between the occurrences of the character sep.
RECURSIVE SplitBy(_, _)
SplitBy(s, sep) ==
    IF \A i \in DOMAIN s : s[i] # sep THEN <<s>>
    ELSE LET k == CHOOSE i \in DOMAIN s : s[i] = sep /\ \A j \in 1..(i - 1) : s[j] # sep
         IN  <<SubSeq(s, 1, k - 1)>> \o SplitBy(SubSeq(s, k + 1, Len(s)), sep)

\* The character a percent escape stands for.
Unescaped(hex) ==
    CASE hex = <<"0", "9">> -> "\t"
      [] hex = <<"2", "0">> -> " "
      [] hex = <<"2", "3">> -> "#"
      [] hex = <<"2", "6">> -> "&"
      [] hex = <<"3", "B">> -> ";"
      [] hex = <<"3", "C">> -> "<"

RECURSIVE decodeURIComponent(_)
decodeURIComponent(s) ==
    IF s = <<>> THEN <<>>
    ELSE IF Head(s) = "%"
         THEN <<Unescaped(SubSeq(s, 2, 3))>> \o decodeURIComponent(SubSeq(s, 4, Len(s)))
         ELSE <<Head(s)>> \o decodeURIComponent(Tail(s))

\* The name=value pairs of the query string of a URL, values decoded.
QueryPairs(url) ==
    LET query == SplitBy(url, "?")[2]
        pairs == SplitBy(query, "&")
    IN  [i \in DOMAIN pairs |->
            IF \A j \in DOMAIN pairs[i] : pairs[i][j] # "=" THEN <<pairs[i], <<>>>>
            ELSE LET k == CHOOSE j \in DOMAIN pairs[i] :
                            pairs[i][j] = "=" /\ \A h \in 1..(j - 1) : pairs[i][h] # "="
                 IN  <<SubSeq(pairs[i], 1, k - 1),
                       decodeURIComponent(SubSeq(pairs[i], k + 1, Len(pairs[i])))>>]

\* The search term or category the handler takes from the query string.
GivenText(name) == IF Has(res.query, name) THEN res.query[name] ELSE <<>>

\* link is the URL of the list route for this page with the limit, search,
\* category, sortBy and sortOrder of the last request.
LinksTo(link, page) ==
    /\ Len(SplitBy(link.url, "?")) = 2
    /\ SplitBy(link.url, "?")[1] = BACKEND_URL \o <<"/", "a", "p", "i", "/", "p", "r", "o", "d", "u", "c", "t", "s">>
    /\ \A params \in {ParseQuery(res.query)} :
        QueryPairs(link.url) =
            << <<Chars("page"), DecimalChars(page)>>,
               <<Chars("limit"), DecimalChars(res.body.pagination.itemsPerPage)>>,
               <<Chars("search"), GivenText("search")>>,
               <<Chars("category"), GivenText("category")>>,
               <<Chars("sortBy"), Chars(params.sortBy)>>,
               <<Chars("sortOrder"), Chars(params.sortOrder)>> >>

\* C17: nextPage is null exactly when the page is the last one or beyond it
\* (also when there is no page at all) and prevPage is null exactly on page 1;
\* otherwise they are the links to the next and to the previous page with the
\* limit, search, category, sortBy and sortOrder of the request.
C17_PageLinks ==
    res.op = "list" =>
        \A pagination \in {res.body.pagination} :
            /\ (pagination.nextPage = Null) <=>
                    (pagination.currentPage >= pagination.totalPages)
            /\ (pagination.prevPage = Null) <=> (pagination.currentPage = 1)
            /\ pagination.nextPage # Null =>
                    LinksTo(pagination.nextPage, pagination.currentPage + 1)
            /\ pagination.prevPage # Null =>
                    LinksTo(pagination.prevPage, pagination.currentPage - 1)

\* Page 2 of 3 has both links.
C17_Witness ==
    /\ res.op = "list"
    /\ res.body.pagination.currentPage = 2
    /\ res.body.pagination.totalPages = 3
    /\ res.body.pagination.nextPage # Null
    /\ res.body.pagination.prevPage # Null

-----------------------------------------------------------------------------
(* The ids of the products under creates, updates and deletes *)

MaxIssued == 4
MaxListed == MaxIssued - 1

\* POST /api/products of an administrator with a valid body, while the list
\* and the ids stay within the bounds.
CreateNumbered ==
    /\ requireAdmin(AdminToken, JWT_SECRET).status = 0
    /\ \E draws \in DrawsNeeded :
        \E out \in {createProduct(ensureProductsFresh(draws), ValidCreateBody, now)} :
            /\ Len(out.cat.products) <= MaxListed
            /\ \A i \in DOMAIN out.cat.products : parseInt(out.cat.products[i].id) <= MaxIssued
            /\ Install(out.cat)
            /\ res' = (("authorization" :> AdminToken) @@ out.res)
            /\ UNCHANGED <<now, JWT_SECRET, otherRouters>>

NumberedIds == {IdString(i) : i \in 1..MaxIssued}

NextIds ==
    \/ CreateNumbered
    \/ \E productId \in NumberedIds : UpdateProduct(AdminToken, productId, ValidUpdateBody)
    \/ \E productId \in NumberedIds, authorization \in {AdminToken, NoAuthorization} :
            DeleteProduct(authorization, productId)

SpecIds == Init /\ [][NextIds]_vars

\* The ids of the products of a list, as numbers.
IdsOf(productList) == {parseInt(productList[i].id) : i \in DOMAIN productList}

\* C18: the products have pairwise distinct ids after any sequence of creates,
\* updates and deletes, and the id a create assigns is the highest id of the
\* products there were plus one, greater than each of them.
C18_IdsDistinct ==
    /\ \A i \in DOMAIN products : \A j \in DOMAIN products :
            products[i].id = products[j].id => i = j
    /\ (res.op = "create" /\ res.status = 201) =>
            \A before \in {IdsOf(SubSeq(products, 1, Len(products) - 1))} :
                /\ products[Len(products)].id = res.body.product.id
                /\ \A id \in before : parseInt(res.body.product.id) > id
                /\ parseInt(res.body.product.id) - 1 \in before

\* A product was created while the id below the highest one was free: the
\* list holds the ids 1, 3 and 4.
C18_Witness ==
    /\ res.op = "create"
    /\ res.status = 201
    /\ IdsOf(products) = {1, 3, 4}
    /\ res.body.product.id = "4"

-----------------------------------------------------------------------------
(* Requests for products that are not there, and mutations that fail *)

\* The request answered by res' has a valid body (get and delete have none).
BodyAccepted ==
    res'.op = "update" => ~(res'.status = 400 /\ Has(res'.body, "details"))

\* C19: a get, update or delete with the id of no product of the catalog is
\* answered 404, and an update or delete answered 400 or 404 leaves the
\* products, the four indexes and the response cache as they were.
C19_FailedRequestsChangeNothing ==
    [][ /\ (res'.op \in {"get", "update", "delete"}
                /\ res'.status \notin {401, 403, 500}
                /\ IsIntMin1(res'.productId)
                /\ res'.productId \notin {products[i].id : i \in DOMAIN products}
                /\ BodyAccepted) =>
                    res'.status = 404
        /\ (res'.op \in {"update", "delete"} /\ res'.status \in {400, 404}) =>
                UNCHANGED <<products, productById, trigramIndex, wordIndex,
                            categoryIndex, responseCache>> ]_vars

-----------------------------------------------------------------------------
(* The mutation routes under every kind of Authorization header *)

AdminClaims == [sub |-> "admin-1", role |-> "admin"]

\* No header, another scheme, a token signed with another key, tokens of a
\* user, without a role, without an id or with an empty sub, and tokens of an
\* administrator, one of them signed with the empty key.
Authorizations ==
    { NoAuthorization,
      [present |-> TRUE, scheme |-> "Basic", token |-> [key |-> "k", claims |-> AdminClaims]],
      Bearer("z", AdminClaims),
      Bearer("k", [sub |-> "user-1", role |-> "user"]),
      Bearer("k", [sub |-> "user-1"]),
      Bearer("k", [role |-> "admin"]),
      Bearer("k", [sub |-> "", id |-> "7", role |-> "admin"]),
      Bearer("", AdminClaims),
      AdminToken }

\* The server starts with JWT_SECRET set or not.
InitAuth ==
    /\ now = 0
    /\ JWT_SECRET \in {"k", ""}
    /\ res = [op |-> "none"]
    /\ RoutersStarted
    /\ \E draws \in GenDrawSeqs : Started(generateProducts(draws, 0))

NextAuth ==
    \/ \E q \in Queries : ListProducts(q)
    \/ \E authorization \in Authorizations :
            CreateProduct(authorization, ValidCreateBody)
    \/ \E authorization \in Authorizations :
            UpdateProduct(authorization, "1", ValidUpdateBody)
    \/ \E authorization \in Authorizations :
            DeleteProduct(authorization, "1")

SpecAuth == InitAuth /\ [][NextAuth]_vars

\* The header carries a Bearer token signed with the configured secret whose
\* role is admin.
VerifiedAdmin(authorization) ==
    /\ authorization.present
    /\ authorization.scheme = "Bearer"
    /\ JWT_SECRET # ""
    /\ authorization.token.key = JWT_SECRET
    /\ Has(authorization.token.claims, "role")
    /\ authorization.token.claims.role = "admin"

\* C20: a create, update or delete request changes the products, the indexes
\* or the cache only with a Bearer token that verifies against the configured
\* secret and has the role admin; any other such request is answered 401, 403
\* or 500 and changes nothing.
C20_AdminOnly ==
    [][res'.op \in {"create", "update", "delete"} =>
        /\ ~UNCHANGED <<products, productById, trigramIndex, wordIndex, categoryIndex,
                        responseCache>> => VerifiedAdmin(res'.authorization)
        /\ ~VerifiedAdmin(res'.authorization) =>
                /\ res'.status \in {401, 403, 500}
                /\ UNCHANGED <<products, productById, trigramIndex, wordIndex,
                               categoryIndex, responseCache, generatedAt>>]_vars

\* A user's create was answered 403 after an administrator's create, with a
\* response in the cache.
C20_Witness ==
    /\ res.op = "create"
    /\ res.status = 403
    /\ res.authorization = Bearer("k", [sub |-> "user-1", role |-> "user"])
    /\ Len(products) = MaxProducts
    /\ responseCache # EmptyMap

-----------------------------------------------------------------------------
(* Search and category together *)

\* The normalized search term of the last request.
AskedText == normalizeText(GivenText("search"))

\* The posting lists the search of the last request reads: those of the
\* trigrams of the term, or of its words when it has no trigram.
AskedPostings ==
    IF Len(AskedText) >= 3
    THEN {Postings(trigramIndex, SubSeq(AskedText, k, k + 2)) : k \in 1..(Len(AskedText) - 2)}
    ELSE {Postings(wordIndex, word) : word \in WordsIn(AskedText)}

\* The search has a candidate set and no product is in it.
ExplicitlyEmpty ==
    /\ AskedPostings # {}
    /\ ~\E i \in DOMAIN products :
            \A postings \in AskedPostings : products[i].id \in Range(postings)

\* C22: when a trigram or word of the search term has no postings, or no
\* product is in all the posting lists, the list is empty and totalItems is 0,
\* with a category of products or without one.
C22_EmptyCandidatesEmptyResult ==
    (res.op = "list" /\ ExplicitlyEmpty) =>
        /\ res.body.products = <<>>
        /\ res.body.pagination.totalItems = 0

\* A search with an empty candidate set in a category that has products.
C22_Witness ==
    /\ res.op = "list"
    /\ ExplicitlyEmpty
    /\ Has(res.query, "category")
    /\ res.query.category \in DOMAIN categoryIndex
    /\ res.body.pagination.totalItems = 0

\* The ids matched by the search of the last request alone.
MatchedBySearchAlone ==
    LET alone == FilterProducts(Catalog, [ParseQuery(res.query) EXCEPT !.category = <<>>])
    IN  {alone[i].id : i \in DOMAIN alone}

\* C23: with a category and no search the matched products are the products
\* of that category; with a category and a search whose normalized term is
\* not empty they are the products matched by the search alone that are in
\* the posting list of the category.
C23_CategoryComposition ==
    (WholeList /\ Has(res.query, "category") /\ res.query.category # <<>>) =>
        /\ ~Has(res.query, "search") =>
                ReturnedIds = {products[i].id : i \in
                                {k \in DOMAIN products :
                                    products[k].category = res.query.category}}
        /\ (Has(res.query, "search") /\ AskedText # <<>>) =>
                ReturnedIds = MatchedBySearchAlone
                                \cap Range(Postings(categoryIndex, res.query.category))

-----------------------------------------------------------------------------
(* What an update leaves as it was *)

\* The position of the product with this id in a product list, 0 for none.
PositionOf(productList, productId) ==
    IF \E i \in DOMAIN productList : productList[i].id = productId
    THEN CHOOSE i \in DOMAIN productList : productList[i].id = productId
    ELSE 0

\* C24: a successful update keeps the product at its position with its id,
\* its createdAt and every field that the request does not name, and leaves
\* every other product as it was.
C24_UpdateFrame ==
    [][(res'.op = "update" /\ res'.status = 200) =>
        \A at \in {PositionOf(products', res'.productId)} :
            /\ at = PositionOf(products, res'.productId)
            /\ Len(products') = Len(products)
            /\ \A i \in DOMAIN products : i # at => products'[i] = products[i]
            /\ products'[at].id = products[at].id
            /\ products'[at].createdAt = products[at].createdAt
            /\ \A f \in DOMAIN products[at] \ (DOMAIN res'.updateData \cup {"searchableText"}) :
                    products'[at][f] = products[at][f]]_vars

-----------------------------------------------------------------------------
(* A deleted product stays away *)

\* C25: the request that follows a successful delete of a product, when it is
\* a get of the deleted id, is answered 404, and when it is a list, does not
\* return a product of that id: no create has assigned the id in between.
C25_DeletedStaysDeleted ==
    [][(res.op = "delete" /\ res.status = 200) =>
        /\ (res'.op = "get" /\ res'.productId = res.productId) => res'.status = 404
        /\ res'.op = "list" =>
                \A i \in DOMAIN res'.body.products :
                    res'.body.products[i].id # res.productId]_vars

-----------------------------------------------------------------------------
(* routes/cart: the carts of the users *)

\* authenticate: status 0 and req.user when the request is passed on to the
\* route, else the response it is answered with.
authenticate(authorization, secret) ==
    IF ~authorization.present \/ authorization.scheme # "Bearer"
    THEN [status |-> 401, body |-> [error |-> "Authentication required"]]
    ELSE IF secret = ""
    THEN [status |-> 500, body |-> [error |-> "Server authentication not configured"]]
    ELSE IF authorization.token.key # secret
    THEN [status |-> 401, body |-> [error |-> "Invalid authentication token"]]
    ELSE LET payload == authorization.token.claims
             id == IF Has(payload, "sub") /\ payload.sub # "" THEN payload.sub
                   ELSE IF Has(payload, "id") THEN payload.id ELSE ""
             role == IF Has(payload, "role") /\ payload.role # "" THEN payload.role
                     ELSE "user"
         IN  IF id = ""
             THEN [status |-> 401, body |-> [error |-> "Invalid authentication token"]]
             ELSE [status |-> 0, user |-> [id |-> id, role |-> role]]

\* The values of a JSON body: a string, an integer number, null, and
\* undefined for a field that is not there.
StringValue(chars) == [type |-> "string", chars |-> chars]
NumberValue(n) == [type |-> "number", value |-> n]
NullValue == [type |-> "null"]
Undefined == [type |-> "undefined"]

Field(obj, name) == IF Has(obj, name) THEN obj[name] ELSE Undefined

\* !value
Falsy(value) ==
    \/ value.type \in {"undefined", "null"}
    \/ value.type = "number" /\ value.value = 0
    \/ value.type = "string" /\ value.chars = ""

\* String(value), also the property key that value is used as
String(value) ==
    CASE value.type = "string" -> value.chars
      [] value.type = "number" /\ value.value \in 0..99 -> IdString(value.value)
      [] value.type = "number" /\ value.value \in -99..-1 -> "-" \o IdString(-value.value)
      [] value.type = "null" -> "null"
      [] OTHER -> "undefined"

\* Number(value): nan, or the integer it is.
Number(value) ==
    CASE value.type = "number" -> [nan |-> FALSE, value |-> value.value]
      [] value.type = "null" -> [nan |-> FALSE, value |-> 0]
      [] value.type = "string" /\ value.chars = "" -> [nan |-> FALSE, value |-> 0]
      [] value.type = "string" /\ value.chars \in Range(Digits) \cup TwoDigits ->
            [nan |-> FALSE, value |-> parseInt(value.chars)]
      [] OTHER -> [nan |-> TRUE]

productPrices ==
    ("1" :> 100) @@ ("2" :> 200) @@ ("3" :> 150) @@ ("4" :> 75) @@ ("5" :> 300)

\* productPrices[productId]; 0 stands for undefined.
PriceOf(productId) ==
    IF String(productId) \in DOMAIN productPrices
    THEN productPrices[String(productId)]
    ELSE 0

CART_TTL_MS == 24 * 60 * 60 * 1000

\* getCart(userId): the carts after the call; carts[userId] is the cart. An
\* item of a cart is its productId and its quantity: the times addedAt and
\* updatedAt of an item, which no route reads, are left out.
getCart(cartMap, userId, at) ==
    IF userId \in DOMAIN cartMap
    THEN cartMap
    ELSE (userId :> [items |-> <<>>, total |-> 0, updatedAt |-> at]) @@ cartMap

\* cart.items.findIndex(item => item.productId === productId): the stored
\* productId is a string, and === holds only for a string of the same
\* characters. The index counts from 1, and 0 is findIndex's -1.
FindItemStrict(items, productId) ==
    IF \E i \in DOMAIN items :
            productId.type = "string" /\ items[i].productId = productId.chars
    THEN CHOOSE i \in DOMAIN items :
            /\ items[i].productId = productId.chars
            /\ \A j \in 1..(i - 1) : items[j].productId # productId.chars
    ELSE 0

\* cart.items.findIndex(item => item.productId === String(productId))
FindItem(items, productId) ==
    IF \E i \in DOMAIN items : items[i].productId = String(productId)
    THEN CHOOSE i \in DOMAIN items :
            /\ items[i].productId = String(productId)
            /\ \A j \in 1..(i - 1) : items[j].productId # String(productId)
    ELSE 0

InvalidProductId(productId) ==
    Falsy(productId) \/ ~IsIntMin1(String(productId))

\* The handler of GET /api/cart
readCart(cartMap, userId, at) ==
    LET after == getCart(cartMap, userId, at)
    IN  [carts |-> after,
         res |-> [op |-> "cart.get", status |-> 200,
                  body |-> [cart |-> after[userId],
                            metadata |-> [lastUpdated |-> after[userId].updatedAt,
                                          itemCount |-> Len(after[userId].items)]]]]

\* An add that counts the price once, whatever the quantity.
addToCartCountingOnce(cartMap, userId, body, at) ==
    LET productId == Field(body, "productId")
        quantity == IF Has(body, "quantity") THEN body.quantity ELSE NumberValue(1)
        parsedQuantity == Number(quantity)
        price == PriceOf(productId)
        after == getCart(cartMap, userId, at)
        cart == after[userId]
        existingItemIndex == FindItemStrict(cart.items, productId)
        items == IF existingItemIndex > 0
                 THEN [cart.items EXCEPT
                        ![existingItemIndex].quantity = @ + parsedQuantity.value]
                 ELSE Append(cart.items, [productId |-> String(productId),
                                          quantity |-> parsedQuantity.value])
        newCart == [items |-> items,
                    total |-> cart.total + price,
                    updatedAt |-> at]
    IN  IF InvalidProductId(productId)
        THEN [carts |-> cartMap,
              res |-> [op |-> "cart.add", status |-> 400,
                       body |-> [error |-> "Valid product ID is required"]]]
        ELSE IF parsedQuantity.nan \/ parsedQuantity.value <= 0 \/ parsedQuantity.value > 100
        THEN [carts |-> cartMap,
              res |-> [op |-> "cart.add", status |-> 400,
                       body |-> [error |-> "Quantity must be an integer between 1 and 100"]]]
        ELSE IF price = 0
        THEN [carts |-> cartMap,
              res |-> [op |-> "cart.add", status |-> 404,
                       body |-> [error |-> "Product not found"]]]
        ELSE [carts |-> [after EXCEPT ![userId] = newCart],
              res |-> [op |-> "cart.add", status |-> 200,
                       body |-> [message |-> "Item added to cart", cart |-> newCart,
                                 addedItem |-> [productId |-> String(productId),
                                                quantity |-> parsedQuantity.value]]]]

\* The handler of POST /api/cart
addToCart(cartMap, userId, body, at) ==
    LET productId == Field(body, "productId")
        quantity == IF Has(body, "quantity") THEN body.quantity ELSE NumberValue(1)
        parsedQuantity == Number(quantity)
        price == PriceOf(productId)
        after == getCart(cartMap, userId, at)
        cart == after[userId]
        existingItemIndex == FindItemStrict(cart.items, productId)
        items == IF existingItemIndex > 0
                 THEN [cart.items EXCEPT
                        ![existingItemIndex].quantity = @ + parsedQuantity.value]
                 ELSE Append(cart.items, [productId |-> String(productId),
                                          quantity |-> parsedQuantity.value])
        newCart == [items |-> items,
                    total |-> cart.total + price * parsedQuantity.value,
                    updatedAt |-> at]
    IN  IF InvalidProductId(productId)
        THEN [carts |-> cartMap,
              res |-> [op |-> "cart.add", status |-> 400,
                       body |-> [error |-> "Valid product ID is required"]]]
        ELSE IF parsedQuantity.nan \/ parsedQuantity.value <= 0 \/ parsedQuantity.value > 100
        THEN [carts |-> cartMap,
              res |-> [op |-> "cart.add", status |-> 400,
                       body |-> [error |-> "Quantity must be an integer between 1 and 100"]]]
        ELSE IF price = 0
        THEN [carts |-> cartMap,
              res |-> [op |-> "cart.add", status |-> 404,
                       body |-> [error |-> "Product not found"]]]
        ELSE [carts |-> [after EXCEPT ![userId] = newCart],
              res |-> [op |-> "cart.add", status |-> 200,
                       body |-> [message |-> "Item added to cart", cart |-> newCart,
                                 addedItem |-> [productId |-> String(productId),
                                                quantity |-> parsedQuantity.value]]]]

\* The handler of PUT /api/cart
updateCartItem(cartMap, userId, body, at) ==
    LET productId == Field(body, "productId")
        parsedQuantity == Number(Field(body, "quantity"))
        price == PriceOf(productId)
        after == getCart(cartMap, userId, at)
        cart == after[userId]
        itemIndex == FindItem(cart.items, productId)
        existingItem == cart.items[itemIndex]
        newCart ==
            IF parsedQuantity.value = 0
            THEN [items |-> Splice(cart.items, itemIndex),
                  total |-> cart.total - price * existingItem.quantity,
                  updatedAt |-> at]
            ELSE [items |-> [cart.items EXCEPT
                                ![itemIndex].quantity = parsedQuantity.value],
                  total |-> cart.total + price * (parsedQuantity.value - existingItem.quantity),
                  updatedAt |-> at]
    IN  IF InvalidProductId(productId)
        THEN [carts |-> cartMap,
              res |-> [op |-> "cart.update", status |-> 400,
                       body |-> [error |-> "Valid product ID is required"]]]
        ELSE IF parsedQuantity.nan \/ parsedQuantity.value < 0 \/ parsedQuantity.value > 100
        THEN [carts |-> cartMap,
              res |-> [op |-> "cart.update", status |-> 400,
                       body |-> [error |-> "Quantity must be an integer between 0 and 100"]]]
        ELSE IF price = 0
        THEN [carts |-> cartMap,
              res |-> [op |-> "cart.update", status |-> 404,
                       body |-> [error |-> "Product not found"]]]
        ELSE IF itemIndex = 0
        THEN [carts |-> after,
              res |-> [op |-> "cart.update", status |-> 404,
                       body |-> [error |-> "Item not found in cart"]]]
        ELSE [carts |-> [after EXCEPT ![userId] = newCart],
              res |-> [op |-> "cart.update", status |-> 200,
                       body |-> [message |-> "Cart item updated", cart |-> newCart]]]

\* The handler of DELETE /api/cart
removeFromCart(cartMap, userId, query, at) ==
    LET productId == Field(query, "productId")
        price == PriceOf(productId)
        after == getCart(cartMap, userId, at)
        cart == after[userId]
        itemIndex == FindItem(cart.items, productId)
        removedItem == cart.items[itemIndex]
        newCart == [items |-> Splice(cart.items, itemIndex),
                    total |-> cart.total - price * removedItem.quantity,
                    updatedAt |-> at]
    IN  IF InvalidProductId(productId)
        THEN [carts |-> cartMap,
              res |-> [op |-> "cart.remove", status |-> 400,
                       body |-> [error |-> "Valid product ID is required"]]]
        ELSE IF price = 0
        THEN [carts |-> cartMap,
              res |-> [op |-> "cart.remove", status |-> 404,
                       body |-> [error |-> "Product not found"]]]
        ELSE IF itemIndex = 0
        THEN [carts |-> after,
              res |-> [op |-> "cart.remove", status |-> 404,
                       body |-> [error |-> "Item not found in cart"]]]
        ELSE [carts |-> [after EXCEPT ![userId] = newCart],
              res |-> [op |-> "cart.remove", status |-> 200,
                       body |-> [message |-> "Item removed from cart", cart |-> newCart,
                                 removedItem |-> removedItem]]]

\* The callback of cleanupTimer: the carts it leaves.
cleanupCarts(cartMap, at) ==
    LET cutoff == at - CART_TTL_MS
        kept == {userId \in DOMAIN cartMap : cartMap[userId].updatedAt >= cutoff}
    IN  [userId \in kept |-> cartMap[userId]]

\* Bounds of the carts explored: the days the server runs, the items of one
\* cart and the quantity of one item.
MaxDays == 1
MaxCartItems == 2
MaxQuantity == 2

WithinCartBounds(cartMap) ==
    \A userId \in DOMAIN cartMap :
        /\ Len(cartMap[userId].items) <= MaxCartItems
        /\ \A i \in DOMAIN cartMap[userId].items :
                cartMap[userId].items[i].quantity <= MaxQuantity

UserToken == Bearer("k", [sub |-> "user-1", role |-> "user"])

\* Authorization headers of the cart requests: of a user, none, and a token
\* signed with another key.
CartAuthorizations == {UserToken, NoAuthorization, Bearer("z", AdminClaims)}

\* req.body.productId: a JSON string or a JSON number of a priced product, of
\* a product without a price, no id, and ids that are not valid.
CartProductIds ==
    { StringValue("1"), NumberValue(1), StringValue("2"), StringValue("9"),
      NumberValue(0) }

\* req.body of POST /api/cart and PUT /api/cart
CartBodies ==
    {[productId |-> productId] : productId \in CartProductIds}
    \cup {[productId |-> productId, quantity |-> NumberValue(2)] :
            productId \in {NumberValue(1), StringValue("2")}}
    \cup {[productId |-> StringValue("1"), quantity |-> quantity] :
            quantity \in {NumberValue(0), NumberValue(101), StringValue("a")}}
    \cup {[quantity |-> NumberValue(1)]}

\* req.query of DELETE /api/cart
CartQueries ==
    {[productId |-> StringValue(chars)] : chars \in {"1", "2", "9", "a"}}
    \cup {[k \in {} |-> Undefined]}

\* router.use(authenticate) answering a request to the cart router itself.
CartDenied(authorization) ==
    LET auth == authenticate(authorization, JWT_SECRET)
    IN  /\ auth.status # 0
        /\ res' = [op |-> "cart", authorization |-> authorization,
                   status |-> auth.status, body |-> auth.body]
        /\ UNCHANGED <<products, productById, trigramIndex, wordIndex, categoryIndex,
                       generatedAt, responseCache, now, JWT_SECRET, otherRouters>>

\* What a route of the cart router does with its outcome, within the bounds.
CartAnswer(authorization, request, out) ==
    /\ WithinCartBounds(out.carts)
    /\ carts' = out.carts
    /\ res' = (("authorization" :> authorization) @@ ("request" :> request) @@ out.res)
    /\ UNCHANGED <<products, productById, trigramIndex, wordIndex, categoryIndex,
                   generatedAt, responseCache, now, JWT_SECRET, auditLog, rateLimitMap>>

\* GET /api/cart
GetCart(authorization) ==
    LET auth == authenticate(authorization, JWT_SECRET)
    IN  /\ auth.status = 0
        /\ \E out \in {readCart(carts, auth.user.id, now)} :
                CartAnswer(authorization, Undefined, out)

\* POST /api/cart
AddToCart(authorization, body) ==
    LET auth == authenticate(authorization, JWT_SECRET)
    IN  /\ auth.status = 0
        /\ \E out \in {addToCart(carts, auth.user.id, body, now)} :
                CartAnswer(authorization, body, out)

\* PUT /api/cart
UpdateCartItem(authorization, body) ==
    LET auth == authenticate(authorization, JWT_SECRET)
    IN  /\ auth.status = 0
        /\ \E out \in {updateCartItem(carts, auth.user.id, body, now)} :
                CartAnswer(authorization, body, out)

\* DELETE /api/cart
RemoveFromCart(authorization, query) ==
    LET auth == authenticate(authorization, JWT_SECRET)
    IN  /\ auth.status = 0
        /\ \E out \in {removeFromCart(carts, auth.user.id, query, now)} :
                CartAnswer(authorization, query, out)

\* cleanupTimer fires: CART_TTL_MS have passed since it was set or last fired.
CleanupCarts ==
    /\ now < MaxDays * CART_TTL_MS
    /\ now' = now + CART_TTL_MS
    /\ carts' = cleanupCarts(carts, now')
    /\ UNCHANGED <<products, productById, trigramIndex, wordIndex, categoryIndex,
                   generatedAt, responseCache, JWT_SECRET, auditLog, rateLimitMap, res>>

NextCart ==
    \/ \E authorization \in CartAuthorizations : CartDenied(authorization)
    \/ \E authorization \in CartAuthorizations : GetCart(authorization)
    \/ \E authorization \in CartAuthorizations, body \in CartBodies :
            AddToCart(authorization, body)
    \/ \E authorization \in CartAuthorizations, body \in CartBodies :
            UpdateCartItem(authorization, body)
    \/ \E authorization \in CartAuthorizations, query \in CartQueries :
            RemoveFromCart(authorization, query)
    \/ CleanupCarts

SpecCart == Init /\ [][NextCart]_vars

\* The sum of price times quantity over the items from place i on.
RECURSIVE SumOfItems(_, _)
SumOfItems(items, i) ==
    IF i > Len(items) THEN 0
    ELSE productPrices[items[i].productId] * items[i].quantity + SumOfItems(items, i + 1)

TotalIsSum(cart) ==
    /\ cart.total = SumOfItems(cart.items, 1)
    /\ cart.total >= 0
    /\ cart.items = <<>> => cart.total = 0

\* C26: the total of every cart, stored or returned, is the sum of price times
\* quantity over its items; it is never negative, and 0 for a cart without
\* items.
C26_TotalIsSum ==
    /\ \A userId \in DOMAIN carts : TotalIsSum(carts[userId])
    /\ (res.op \in {"cart.get", "cart.add", "cart.update", "cart.remove"}
        /\ res.status = 200) => TotalIsSum(res.body.cart)

\* A cart of two items after an update that was answered 200.
C26_Witness ==
    /\ res.op = "cart.update"
    /\ res.status = 200
    /\ Len(res.body.cart.items) >= 2
    /\ res.body.cart.total > 0

NoTwoItems(items) ==
    \A i, j \in DOMAIN items : i # j => items[i].productId # items[j].productId

\* C27: no cart holds two items of one product, whether the productId of a
\* request is a JSON string or a JSON number; an add of a product that the
\* cart holds adds no item and increases the quantity of the item it holds.
C27_OneItemPerProduct ==
    [][\A userId \in DOMAIN carts' :
        /\ NoTwoItems(carts'[userId].items)
        /\ (/\ res'.op = "cart.add"
            /\ res'.status = 200
            /\ userId = authenticate(res'.authorization, JWT_SECRET).user.id
            /\ userId \in DOMAIN carts
            /\ FindItem(carts[userId].items, res'.request.productId) > 0) =>
                \A at \in {FindItem(carts[userId].items, res'.request.productId)} :
                    /\ Len(carts'[userId].items) = Len(carts[userId].items)
                    /\ carts'[userId].items[at].quantity
                            > carts[userId].items[at].quantity]_vars

-----------------------------------------------------------------------------
(* server: the rate limiter in front of every route *)

RATE_LIMIT_WINDOW_MS == 60 * 1000
RATE_LIMIT_MAX == 120

\* A limiter whose window is over when RATE_LIMIT_WINDOW_MS have passed, not
\* when more than that have.
rateLimitRestartingEarly(limitMap, key, at) ==
    LET entry == IF key \in DOMAIN limitMap THEN limitMap[key]
                 ELSE [count |-> 0, start |-> at]
        current == IF at - entry.start >= RATE_LIMIT_WINDOW_MS
                   THEN [count |-> 0, start |-> at]
                   ELSE entry
        counted == [current EXCEPT !.count = @ + 1]
    IN  [rateLimitMap |-> (key :> counted) @@ limitMap,
         passed |-> counted.count <= RATE_LIMIT_MAX]

\* The rate limiting middleware: the map it leaves, and whether it calls
\* next().
rateLimit(limitMap, key, at) ==
    LET entry == IF key \in DOMAIN limitMap THEN limitMap[key]
                 ELSE [count |-> 0, start |-> at]
        current == IF at - entry.start > RATE_LIMIT_WINDOW_MS
                   THEN [count |-> 0, start |-> at]
                   ELSE entry
        counted == [current EXCEPT !.count = @ + 1]
    IN  [rateLimitMap |-> (key :> counted) @@ limitMap,
         passed |-> counted.count <= RATE_LIMIT_MAX]

\* Bounds of the clients explored: the half windows the clock runs, the
\* requests of one window that a client goes on sending after its first 429,
\* and the requests of one window of the second client.
MaxHalfWindows == 3
MaxRejected == 2
MaxBackground == 2

\* req.ip: a client that sends as many requests as it likes, and a second
\* client that sends a few.
ClientIps == {"10.0.0.1", "10.0.0.2"}

RequestsExplored(ip) ==
    IF ip = "10.0.0.1" THEN RATE_LIMIT_MAX + MaxRejected ELSE MaxBackground

\* GET /health behind the rate limiter. The requests of the other
\* specifications are requests of clients within their limit.
Health(ip) ==
    \E out \in {rateLimit(rateLimitMap, ip, now)} :
        /\ out.rateLimitMap[ip].count <= RequestsExplored(ip)
        /\ rateLimitMap' = out.rateLimitMap
        /\ res' = IF out.passed
                  THEN [op |-> "health", ip |-> ip, status |-> 200,
                        body |-> [status |-> "OK", timestamp |-> now]]
                  ELSE [op |-> "health", ip |-> ip, status |-> 429,
                        body |-> [error |-> "Too many requests"]]
        /\ UNCHANGED <<products, productById, trigramIndex, wordIndex, categoryIndex,
                       generatedAt, responseCache, now, JWT_SECRET, carts, auditLog>>

HalfWindowMs == RATE_LIMIT_WINDOW_MS \div 2

\* Half a window passes.
HalfWindow ==
    /\ now < MaxHalfWindows * HalfWindowMs
    /\ now' = now + HalfWindowMs
    /\ UNCHANGED <<products, productById, trigramIndex, wordIndex, categoryIndex,
                   generatedAt, responseCache, JWT_SECRET, otherRouters, res>>

NextRate ==
    \/ \E ip \in ClientIps : Health(ip)
    \/ HalfWindow

SpecRate == Init /\ [][NextRate]_vars

\* The client's window is open: it has sent a request, and no more than
\* RATE_LIMIT_WINDOW_MS have passed since the first request of the window.
WindowOpen(ip) ==
    /\ ip \in DOMAIN rateLimitMap
    /\ now - rateLimitMap[ip].start <= RATE_LIMIT_WINDOW_MS

\* The requests of the client's open window so far.
CountedBefore(ip) == IF WindowOpen(ip) THEN rateLimitMap[ip].count ELSE 0

\* C28: a request is answered 429 exactly when RATE_LIMIT_MAX requests of its
\* client were counted in the client's open window before it, and is passed
\* on otherwise; the window starts with its first request and starts again
\* only with a request that arrives after it has elapsed; the requests of
\* another client count for nothing.
C28_RateLimit ==
    [][res'.op = "health" /\ rateLimitMap' # rateLimitMap =>
        /\ res'.status = 429 <=> CountedBefore(res'.ip) >= RATE_LIMIT_MAX
        /\ res'.status = 200 <=> CountedBefore(res'.ip) < RATE_LIMIT_MAX
        /\ rateLimitMap'[res'.ip].count = CountedBefore(res'.ip) + 1
        /\ rateLimitMap'[res'.ip].start =
                IF WindowOpen(res'.ip) THEN rateLimitMap[res'.ip].start ELSE now
        /\ \A ip \in DOMAIN rateLimitMap \ {res'.ip} :
                rateLimitMap'[ip] = rateLimitMap[ip]]_vars

\* A request answered 429 at the last instant of its window, while the other
\* client has a window of its own.
C28_Witness ==
    /\ res.op = "health"
    /\ res.status = 429
    /\ now - rateLimitMap[res.ip].start = RATE_LIMIT_WINDOW_MS
    /\ DOMAIN rateLimitMap = ClientIps

\* A request passed on as the first of a new window, after a window in which
\* the client was answered 429.
C28_WitnessRestart ==
    /\ res.op = "health"
    /\ res.status = 200
    /\ res.ip \in DOMAIN rateLimitMap
    /\ rateLimitMap[res.ip].count = 1
    /\ rateLimitMap[res.ip].start > RATE_LIMIT_WINDOW_MS

-----------------------------------------------------------------------------
(* The secret endpoint *)

\* An Authorization header "Bearer <text>" whose token is no JWT.
BearerText(text) == [present |-> TRUE, scheme |-> "Bearer", token |-> [text |-> text]]

\* process.env.JWT_SECRET || '<the default of the secret endpoint>'
SecretEndpointKey(secret) ==
    IF secret # "" THEN secret
    ELSE "ecommerce-super-secret-key-change-in-production-min-32-chars"

\* jwt.verify(token, key) does not throw.
Verifies(token, key) == Has(token, "key") /\ token.key = key

\* logAccess: the audit log with the entry pushed.
logAccess(log, userId, accessMethod, success, reason, at) ==
    Append(log, [timestamp |-> at, userId |-> userId, accessMethod |-> accessMethod,
                 success |-> success, reason |-> reason])

secretProducts ==
    << [id |-> "secret-1", name |-> "Premium Exclusive Item", actualCost |-> 50,
        sellingPrice |-> 200, profitMargin |-> "75%", secretCategory |-> "high-margin"],
       [id |-> "secret-2", name |-> "Limited Edition Product", actualCost |-> 80,
        sellingPrice |-> 300, profitMargin |-> "73%", secretCategory |-> "limited"] >>

\* secretProducts.reduce((sum, p) => sum + (p.sellingPrice - p.actualCost), 0)
RECURSIVE ProfitFrom(_, _)
ProfitFrom(list, i) ==
    IF i > Len(list) THEN 0
    ELSE (list[i].sellingPrice - list[i].actualCost) + ProfitFrom(list, i + 1)

\* The access the handler finds: its method, the user, and whether
\* jwt.verify threw.
SecretAccess(request, secret) ==
    LET authHeader == request.authorization
        isBearer == authHeader.present /\ authHeader.scheme = "Bearer"
    IN  IF isBearer /\ authHeader.token = [text |-> "secret-admin-token"]
        THEN [hasAccess |-> TRUE, accessMethod |-> "bearer-token-puzzle",
              userId |-> "anonymous", threw |-> FALSE]
        ELSE IF request.apiKey = "admin-api-key-2024"
        THEN [hasAccess |-> TRUE, accessMethod |-> "api-key-puzzle",
              userId |-> "anonymous", threw |-> FALSE]
        ELSE IF Has(request.query, "secret") /\ request.query.secret = "profit-data"
        THEN [hasAccess |-> TRUE, accessMethod |-> "query-parameter-puzzle",
              userId |-> "anonymous", threw |-> FALSE]
        ELSE IF ~isBearer
        THEN [hasAccess |-> FALSE, accessMethod |-> "unknown",
              userId |-> "anonymous", threw |-> FALSE]
        ELSE IF ~Verifies(authHeader.token, SecretEndpointKey(secret))
        THEN [hasAccess |-> FALSE, accessMethod |-> "unknown",
              userId |-> "anonymous", threw |-> TRUE]
        ELSE LET payload == authHeader.token.claims
             IN  IF Has(payload, "role") /\ payload.role = "admin"
                 THEN [hasAccess |-> TRUE, accessMethod |-> "jwt-admin-token",
                       userId |-> IF Has(payload, "id") /\ payload.id # "" THEN payload.id
                                  ELSE IF Has(payload, "sub") /\ payload.sub # ""
                                  THEN payload.sub
                                  ELSE "admin-user",
                       threw |-> FALSE]
                 ELSE [hasAccess |-> FALSE, accessMethod |-> "unknown",
                       userId |-> "anonymous", threw |-> FALSE]

\* The handler of GET /api/product_secret_endpoint. The hints of the 403
\* body, and the headers, the analytics and the puzzle texts of the 200
\* response are left out.
secretEndpoint(log, request, secret, at) ==
    LET access == SecretAccess(request, secret)
    IN  IF access.threw
        THEN [auditLog |-> logAccess(log, access.userId, "jwt-admin-token", FALSE,
                                     "Invalid JWT token", at),
              res |-> [op |-> "secret", status |-> 401,
                       body |-> [error |-> "Invalid authentication token"]]]
        ELSE IF ~access.hasAccess
        THEN [auditLog |-> logAccess(log, access.userId, access.accessMethod, FALSE,
                                     "Invalid credentials", at),
              res |-> [op |-> "secret", status |-> 403,
                       body |-> [error |-> "Access denied to secret product data"]]]
        ELSE [auditLog |-> logAccess(log, access.userId, access.accessMethod, TRUE,
                                     "Secret data accessed", at),
              res |-> [op |-> "secret", status |-> 200,
                       body |-> [message |-> "Secret product profit data accessed",
                                 accessMethod |-> access.accessMethod,
                                 secretProducts |-> secretProducts,
                                 totalProfit |-> ProfitFrom(secretProducts, 1)]]]

\* auditLog.slice(-100)
LastHundred(log) == SubSeq(log, Max(1, Len(log) - 99), Len(log))

\* The handler of GET /api/product_secret_endpoint/audit/log
auditLogRoute(log, authorization, secret) ==
    LET auth == requireAdmin(authorization, secret)
    IN  IF auth.status # 0
        THEN [op |-> "audit", status |-> auth.status, body |-> auth.body]
        ELSE [op |-> "audit", status |-> 200,
              body |-> [auditLog |-> LastHundred(log), total |-> Len(log)]]

\* The entries of the audit log explored.
MaxAudit == 2

\* A token of an administrator signed with the default key of the endpoint.
DefaultKeyToken ==
    Bearer("ecommerce-super-secret-key-change-in-production-min-32-chars", AdminClaims)

NoQuery == [k \in {} |-> ""]

\* Requests to the secret endpoint: without credentials, with each of the
\* three fixed credentials, and with tokens of an administrator, of a user,
\* of an administrator without an id, and tokens signed with other keys.
SecretRequests ==
    {[authorization |-> authorization, apiKey |-> "", query |-> NoQuery] :
        authorization \in {NoAuthorization, BearerText("secret-admin-token"),
                           BearerText("abc"), AdminToken, UserToken,
                           Bearer("k", [role |-> "admin"]), Bearer("z", AdminClaims),
                           DefaultKeyToken}}
    \cup {[authorization |-> NoAuthorization, apiKey |-> "admin-api-key-2024",
           query |-> NoQuery],
          [authorization |-> NoAuthorization, apiKey |-> "abc", query |-> NoQuery],
          [authorization |-> NoAuthorization, apiKey |-> "",
           query |-> [secret |-> "profit-data"]],
          [authorization |-> UserToken, apiKey |-> "",
           query |-> [secret |-> "abc"]]}

\* GET /api/product_secret_endpoint
SecretEndpoint(request) ==
    \E out \in {secretEndpoint(auditLog, request, JWT_SECRET, now)} :
        /\ Len(out.auditLog) <= MaxAudit
        /\ auditLog' = out.auditLog
        /\ res' = (("request" :> request) @@ out.res)
        /\ UNCHANGED <<products, productById, trigramIndex, wordIndex, categoryIndex,
                       generatedAt, responseCache, now, JWT_SECRET, carts, rateLimitMap>>

\* GET /api/product_secret_endpoint/audit/log
AuditLog(authorization) ==
    /\ res' = (("authorization" :> authorization)
               @@ auditLogRoute(auditLog, authorization, JWT_SECRET))
    /\ UNCHANGED <<products, productById, trigramIndex, wordIndex, categoryIndex,
                   generatedAt, responseCache, now, JWT_SECRET, otherRouters>>

NextSecret ==
    \/ \E request \in SecretRequests : SecretEndpoint(request)
    \/ \E authorization \in {AdminToken, UserToken, NoAuthorization} :
            AuditLog(authorization)

SpecSecret == InitAuth /\ [][NextSecret]_vars

\* The request carries a JWT that the endpoint's jwt.verify accepts and whose
\* role is admin.
AdminJwt(request) ==
    /\ request.authorization.present
    /\ request.authorization.scheme = "Bearer"
    /\ Verifies(request.authorization.token, SecretEndpointKey(JWT_SECRET))
    /\ Has(request.authorization.token.claims, "role")
    /\ request.authorization.token.claims.role = "admin"

\* C21: the secret endpoint answers 200 with the secret product data exactly
\* to a request with a valid JWT whose role is admin; it answers every other
\* request 401 or 403.
C21_SecretAdminOnly ==
    res.op = "secret" =>
        /\ res.status = 200 <=> AdminJwt(res.request)
        /\ ~AdminJwt(res.request) => res.status \in {401, 403}

=============================================================================
